---- MODULE Spec2Model ----
(***************************************************************************)
(* Model of the supermarket-chain scrapers (scripts/tam.py, araz.py,       *)
(* bravo.py, oba.py) and of the city classifier of scripts/analyze.py.     *)
(*                                                                         *)
(* Every scraper is a batch program: fetch one document, walk its items,   *)
(* return a list of records.  Each is modelled as a small state machine    *)
(* (fetch, one step per item or per strategy, return) with its own         *)
(* specification; the documents are drawn from bounded sets.               *)
(***************************************************************************)
EXTENDS Integers, Sequences, FiniteSets, TLC

(***************************************************************************)
(* Bounds                                                                  *)
(***************************************************************************)
MaxBranches == 2      \* longest TAM record list
MaxChunks == 2        \* most push chunks in an Araz document
MaxArticles == 2      \* most <article> elements in a Bravo document

(***************************************************************************)
(* Generic helpers                                                         *)
(***************************************************************************)
ABSENT == "~absent"   \* a key / attribute that is not there
NONSTR == "~number"   \* a JSON value that is a number, not a string

SeqsUpTo(S, n) == UNION {[1..k -> S] : k \in 0..n}

\* dict.get(key, default) on a record whose missing keys hold ABSENT
Get(v, default) == IF v = ABSENT THEN default ELSE v

(***************************************************************************)
(* Coordinates as the adapters emit them: the empty string, a text copied  *)
(* verbatim from the source, or the str() of a float computed from DMS     *)
(* (kept exactly, in units of 1/36000 degree).                             *)
(***************************************************************************)
DmsUnit == 36000
NoCoord == [k |-> "empty", t |-> "", n |-> 0]
TextCoord(t) == [k |-> "text", t |-> t, n |-> 0]
CalcCoord(n) == [k |-> "calc", t |-> "", n |-> n]

\* float(t), in units of 1/36000 degree, for the texts that are numbers
WellFormed(t) ==
  t \in {"41.09", "45.36", "40.42", "49.96", "95.0", "200.0", "123", "0", "-41.09"}
TextValue(t) ==
  CASE t = "41.09" -> 1479240
    [] t = "45.36" -> 1632960
    [] t = "40.42" -> 1455120
    [] t = "49.96" -> 1798560
    [] t = "95.0"  -> 3420000
    [] t = "200.0" -> 7200000
    [] t = "123"   -> 4428000
    [] t = "-41.09" -> 0 - 1479240
    [] OTHER       -> 0

IsNumber(c) == c.k = "calc" \/ (c.k = "text" /\ WellFormed(c.t))
CoordValue(c) == IF c.k = "calc" THEN c.n ELSE TextValue(c.t)

(***************************************************************************)
(* tam.py : dms_to_decimal                                                 *)
(***************************************************************************)
\* A DMS half D°M'S"H as it stands in the text: degrees, the two minute
\* digits, seconds in tenths, hemisphere letter.
DmsHalf(d, m1, m2, s, h) == [d |-> d, m1 |-> m1, m2 |-> m2, s |-> s, h |-> h]

\* The class [°%C2%B0]+ after the degrees is greedy and contains the digits
\* 0 and 2: it swallows leading minute digits 0/2 as long as one digit is
\* left for (\d+).
MinutesCaptured(m1, m2) == IF m1 \in {0, 2} THEN m2 ELSE 10 * m1 + m2

DmsValue(half) ==
  LET v == half.d * DmsUnit + MinutesCaptured(half.m1, half.m2) * 600 + half.s
  IN IF half.h \in {"S", "W"} THEN 0 - v ELSE v

NoDms == [ok |-> FALSE, lat |-> DmsHalf(0, 0, 0, 0, "N"), lon |-> DmsHalf(0, 0, 0, 0, "E")]
Dms(lat, lon) == [ok |-> TRUE, lat |-> lat, lon |-> lon]

\* returns the pair (latitude, longitude); ('', '') when the pattern fails
dms_to_decimal(dms) ==
  IF dms.ok
    THEN <<CalcCoord(DmsValue(dms.lat)), CalcCoord(DmsValue(dms.lon))>>
    ELSE <<NoCoord, NoCoord>>

(***************************************************************************)
(* tam.py : the JSON payload                                               *)
(***************************************************************************)
\* The "map" field of a branch.  A string is described by what the three
\* patterns of lines 138-155 find in it: the q= pair, the !3d and !2d
\* numbers, the DMS text; short marks a goo.gl link.
NoPair == <<"", "">>
MapValue(k, short, q, d3, d2, dms) ==
  [k |-> k, short |-> short, q |-> q, d3 |-> d3, d2 |-> d2, dms |-> dms]
MapAbsent == MapValue("absent", FALSE, NoPair, "", "", NoDms)   \* no "map" key
MapEmpty  == MapValue("empty", FALSE, NoPair, "", "", NoDms)    \* "" or null
MapNumber == MapValue("nonstr", FALSE, NoPair, "", "", NoDms)   \* a number
MapStr(short, q, d3, d2, dms) == MapValue("str", short, q, d3, d2, dms)

\* 40 34'34.8"N 47 17'33.2"E
DmsNE == Dms(DmsHalf(40, 3, 4, 348, "N"), DmsHalf(47, 1, 7, 332, "E"))

\* where a shortened link may redirect to
RedirectTargets ==
  {MapStr(FALSE, NoPair, "", "", NoDms),
   MapStr(FALSE, <<"41.09", "45.36">>, "", "", NoDms),
   MapStr(FALSE, NoPair, "", "", DmsNE)}

\* The map fields: no string; full URLs and texts; shortened links (they
\* contain "goo.gl", and the link text itself may carry a form)
Maps ==
  LET DmsSW == Dms(DmsHalf(40, 2, 2, 348, "S"), DmsHalf(47, 0, 7, 332, "W"))
      DmsBig == Dms(DmsHalf(95, 3, 0, 0, "N"), DmsHalf(47, 1, 0, 0, "E"))
      LongMaps ==
        {MapStr(FALSE, NoPair, d3, d2, dms) :
           d3 \in {"", "40.42"}, d2 \in {"", "49.96"}, dms \in {NoDms, DmsNE}}
        \cup {MapStr(FALSE, <<"41.09", "45.36">>, d, IF d = "" THEN "" ELSE "49.96", dms) :
                d \in {"", "40.42"}, dms \in {NoDms, DmsNE}}
        \cup {MapStr(FALSE, <<"95.0", "200.0">>, "", "", NoDms),
              MapStr(FALSE, <<"-41.09", "45.36">>, "", "", NoDms),
              MapStr(FALSE, <<"-", "1.2.3">>, "", "", NoDms),
              MapStr(FALSE, NoPair, "-", ".", NoDms),
              MapStr(FALSE, NoPair, "123", "200.0", NoDms),
              MapStr(FALSE, NoPair, "", "", DmsSW),
              MapStr(FALSE, NoPair, "", "", DmsBig)}
      ShortMaps ==
        {MapStr(TRUE, NoPair, "", "", NoDms),
         MapStr(TRUE, <<"41.09", "45.36">>, "", "", NoDms)}
  IN {MapAbsent, MapEmpty, MapNumber} \cup LongMaps \cup ShortMaps

\* One element of the record list.  isdict = FALSE is an element that is
\* not a JSON object (a number, a string, a character of a string).
Branch(isdict, title, branch_name, address, phone_1, work_hours, map) ==
  [isdict |-> isdict, title |-> title, branch_name |-> branch_name,
   address |-> address, phone_1 |-> phone_1, work_hours |-> work_hours,
   map |-> map]
NotADict == Branch(FALSE, ABSENT, ABSENT, ABSENT, ABSENT, ABSENT, MapAbsent)
NoFields == Branch(TRUE, ABSENT, ABSENT, ABSENT, ABSENT, ABSENT, MapAbsent)

Branches ==
  {Branch(TRUE, "T1", ABSENT, "A1", "P1", "H1", m) : m \in Maps}
  \cup {Branch(TRUE, t, b, "A1", ABSENT, ABSENT, MapAbsent) :
          t \in {ABSENT, "T2"}, b \in {ABSENT, "B1"}}
  \cup {Branch(TRUE, "T1", ABSENT, a, ABSENT, ABSENT, MapAbsent) :
          a \in {ABSENT, "", "<p>A1</p>", " A2 ", NONSTR}}
  \cup {NotADict}

\* the records of the longer lists
FewBranches ==
  {Branch(TRUE, "T1", ABSENT, "A1", "P1", "H1", MapAbsent),
   Branch(TRUE, "T1", ABSENT, "<p>A1</p>", ABSENT, ABSENT, MapEmpty),
   Branch(TRUE, "T1", ABSENT, "A1", "P1", "H1", MapStr(TRUE, NoPair, "", "", NoDms)),
   NotADict}
\* The value under a container key: absent, a list, a truthy non-iterable
\* (number, true), a falsy value (0, false, null, "", {}, but not []), a
\* non-empty string or a non-empty object (iterating either yields elements
\* that are not objects).
ContainerKeys == <<"data", "branches", "stores", "locations", "items">>
ContVal(k, items) == [k |-> k, items |-> items]
ContAbsent == ContVal("absent", <<>>)
ContVals ==
  {ContVal("list", l) :
     l \in SeqsUpTo({Branch(TRUE, "T1", ABSENT, "A1", "P1", "H1", MapAbsent), NotADict},
                    MaxBranches)}
  \cup {ContVal("number", <<>>), ContVal("falsy", <<>>),
        ContVal("string", <<NotADict, NotADict>>),
        ContVal("object", <<NotADict>>)}

KeySet == {ContainerKeys[i] : i \in 1..Len(ContainerKeys)}

\* payload: t is "list", "dict", "scalar" (number, string, bool, null),
\* "fetcherr" (requests.RequestException) or "badjson" (ValueError)
Payload(t, items, keys, own) == [t |-> t, items |-> items, keys |-> keys, own |-> own]
NoKeys == [k \in KeySet |-> ContAbsent]
\* The payloads: lists of the few records, and every record alone or after
\* one that fails; dicts holding up to two container keys, with or without
\* fields of their own; the rest
Payloads ==
  LET ListPayloads ==
        {Payload("list", l, NoKeys, NoFields) :
           l \in SeqsUpTo(FewBranches, MaxBranches)
                 \cup {<<b>> : b \in Branches} \cup {<<NotADict, b>> : b \in Branches}}
      DictKeyings ==
        {[k \in KeySet |-> IF k = k1 THEN v1 ELSE IF k = k2 THEN v2 ELSE ContAbsent] :
           k1 \in KeySet, k2 \in KeySet, v1 \in ContVals \cup {ContAbsent}, v2 \in ContVals}
        \cup {NoKeys}
      DictPayloads ==
        {Payload("dict", <<>>, ks, own) :
           ks \in DictKeyings,
           own \in {NoFields, Branch(TRUE, "T1", ABSENT, "A1", ABSENT, ABSENT, MapAbsent)}}
      OtherPayloads ==
        {Payload(t, <<>>, NoKeys, NoFields) : t \in {"scalar", "fetcherr", "badjson"}}
  IN ListPayloads \cup DictPayloads \cup OtherPayloads

(***************************************************************************)
(* tam.py : scrape_tam_locations                                           *)
(***************************************************************************)
VARIABLES
  tam_pc,          \* "start", "loop", "done" (returned) or "raised"
  tam_data,        \* the payload response.json() gave
  tam_branch_list, \* branch_list after lines 85-98
  tam_i,           \* position of the for loop of line 102
  tam_branches,    \* branches, the list that is returned
  tam_log          \* one entry per element walked: what was printed for it

tamVars == <<tam_pc, tam_data, tam_branch_list, tam_i, tam_branches, tam_log>>

\* position in keys of the first key the dict holds, 0 when it holds none
\* (the for/break of lines 91-94)
FirstPresentFrom(keys, d, i) ==
  IF \E j \in i..Len(keys) : d[keys[j]].k # "absent"
    THEN CHOOSE j \in i..Len(keys) :
           /\ d[keys[j]].k # "absent"
           /\ \A h \in i..(j - 1) : d[keys[h]].k = "absent"
    ELSE 0
FirstPresent(keys, d) == FirstPresentFrom(keys, d, 1)

\* bool(data) for a dict payload: it has at least one key
DictNonEmpty(data) ==
  \/ \E k \in KeySet : data.keys[k].k # "absent"
  \/ data.own # NoFields

\* lines 85-100: the record list, and whether len(branch_list) raises.
\* "not branch_list" is true of [] as of every other falsy value.
NormalisePayload(data) ==
  IF data.t = "list" THEN [raises |-> FALSE, list |-> data.items]
  ELSE IF data.t = "dict" THEN
    LET j == FirstPresent(ContainerKeys, data.keys)
        found == IF j = 0 THEN ContVal("list", <<>>) ELSE data.keys[ContainerKeys[j]]
        falsy == found.k = "falsy" \/ (found.k = "list" /\ found.items = <<>>)
    IN IF falsy /\ DictNonEmpty(data)
         THEN [raises |-> FALSE, list |-> <<data.own>>]
         ELSE IF found.k = "number"
           THEN [raises |-> TRUE, list |-> <<>>]
           ELSE [raises |-> FALSE, list |-> found.items]
  ELSE [raises |-> FALSE, list |-> <<>>]

\* TamName with a fallback to a second key
TamNameAlternate(branch) == Get(branch.title, Get(branch.branch_name, ""))
\* line 105
TamName(branch) == Get(branch.title, "")

\* lines 111-113: strip tags, unescape entities, strip blanks
CleanAddress(raw) ==
  CASE raw = "<p>A1</p>" -> "A1"
    [] raw = " A2 "      -> "A2"
    [] OTHER             -> raw
\* lines 108-113
TamAddress(branch) ==
  LET address == Get(branch.address, "")
  IN IF address # "" THEN CleanAddress(address) ELSE address

\* the outcome of requests.head for a shortened link
RedirectFailed == MapValue("failed", FALSE, NoPair, "", "", NoDms)
NoRedirect == MapValue("none", FALSE, NoPair, "", "", NoDms)
\* lines 128-134: map_data after the redirect attempt
ExpandMap(m, r) == IF m.short /\ r.k = "str" THEN r ELSE m

\* ExtractCoords trying the tile form before the q= form
ExtractCoordsTileFirst(m) ==
  IF m.d3 # "" /\ m.d2 # ""
    THEN <<TextCoord(m.d3), TextCoord(m.d2)>>
    ELSE IF m.q # NoPair
      THEN <<TextCoord(m.q[1]), TextCoord(m.q[2])>>
      ELSE dms_to_decimal(m.dms)
\* ExtractCoords falling back to 0,0 when no form matches
ExtractCoordsZeroDefault(m) ==
  IF m.q # NoPair
    THEN <<TextCoord(m.q[1]), TextCoord(m.q[2])>>
    ELSE IF m.d3 # "" /\ m.d2 # ""
      THEN <<TextCoord(m.d3), TextCoord(m.d2)>>
      ELSE IF m.dms.ok THEN dms_to_decimal(m.dms)
           ELSE <<TextCoord("0"), TextCoord("0")>>
\* ExtractCoords taking the q= pair in the other order
ExtractCoordsSwapped(m) ==
  IF m.q # NoPair
    THEN <<TextCoord(m.q[2]), TextCoord(m.q[1])>>
    ELSE IF m.d3 # "" /\ m.d2 # ""
      THEN <<TextCoord(m.d3), TextCoord(m.d2)>>
      ELSE LET p == dms_to_decimal(m.dms)
           IN IF p[1] # NoCoord /\ p[2] # NoCoord THEN p ELSE <<NoCoord, NoCoord>>
\* lines 138-158 on the string map_data
ExtractCoords(m) ==
  IF m.q # NoPair
    THEN <<TextCoord(m.q[1]), TextCoord(m.q[2])>>
    ELSE IF m.d3 # "" /\ m.d2 # ""
      THEN <<TextCoord(m.d3), TextCoord(m.d2)>>
      ELSE LET p == dms_to_decimal(m.dms)
           IN IF p[1] # NoCoord /\ p[2] # NoCoord THEN p ELSE <<NoCoord, NoCoord>>

\* lines 122-158
TamCoords(m, r) ==
  IF m.k = "str" THEN ExtractCoords(ExpandMap(m, r)) ELSE <<NoCoord, NoCoord>>

\* what makes the body of the try of line 103 raise: .get on a non-object,
\* re.sub on a non-string address, "in" on a non-string map
BranchRaises(branch) ==
  \/ ~branch.isdict
  \/ branch.address = NONSTR
  \/ branch.map.k = "nonstr"

\* lines 105-167
TamRecord(branch, r) ==
  [name |-> TamName(branch), address |-> TamAddress(branch),
   phone |-> Get(branch.phone_1, ""), hours |-> Get(branch.work_hours, ""),
   latitude |-> TamCoords(branch.map, r)[1],
   longitude |-> TamCoords(branch.map, r)[2]]

TamInit ==
  /\ tam_pc = "start"
  /\ tam_data = Payload("scalar", <<>>, NoKeys, NoFields)
  /\ tam_branch_list = <<>>
  /\ tam_i = 1
  /\ tam_branches = <<>>
  /\ tam_log = <<>>

\* lines 65-77: the request or the JSON decoding fails, [] is returned
TamFetchFails ==
  /\ tam_pc = "start"
  /\ \E data \in {d \in Payloads : d.t \in {"fetcherr", "badjson"}} :
       tam_data' = data
  /\ tam_pc' = "done"
  /\ UNCHANGED <<tam_branch_list, tam_i, tam_branches, tam_log>>

\* lines 65-100: a payload is fetched and normalised
TamFetch ==
  /\ tam_pc = "start"
  /\ \E data \in {d \in Payloads : d.t \notin {"fetcherr", "badjson"}} :
       /\ tam_data' = data
       /\ tam_branch_list' = NormalisePayload(data).list
       /\ tam_pc' = IF NormalisePayload(data).raises THEN "raised" ELSE "loop"
  /\ UNCHANGED <<tam_i, tam_branches, tam_log>>

\* lines 102-174: one pass of the loop body
TamBranch ==
  /\ tam_pc = "loop"
  /\ tam_i <= Len(tam_branch_list)
  /\ LET branch == tam_branch_list[tam_i]
     IN \E r \in (IF ~BranchRaises(branch) /\ branch.map.k = "str" /\ branch.map.short
                    THEN RedirectTargets \cup {RedirectFailed}
                    ELSE {NoRedirect}) :
          IF BranchRaises(branch)
            THEN /\ tam_log' = Append(tam_log, [event |-> "error", redirect |-> r])
                 /\ UNCHANGED tam_branches
            ELSE /\ tam_branches' = Append(tam_branches, TamRecord(branch, r))
                 /\ tam_log' = Append(tam_log, [event |-> "extracted", redirect |-> r])
  /\ tam_i' = tam_i + 1
  /\ UNCHANGED <<tam_pc, tam_data, tam_branch_list>>

\* line 176
TamReturn ==
  /\ tam_pc = "loop"
  /\ tam_i > Len(tam_branch_list)
  /\ tam_pc' = "done"
  /\ UNCHANGED <<tam_data, tam_branch_list, tam_i, tam_branches, tam_log>>

(***************************************************************************)
(* araz.py : the document                                                  *)
(***************************************************************************)
MaxStores == 2        \* most store objects in one push chunk
MaxDivs == 1          \* most store <div>s in the HTML of an Araz document
MaxNdStores == 2      \* most stores in the list of __NEXT_DATA__

AbsentCoord == [k |-> "absent", t |-> "", n |-> 0]   \* record without the key

\* a store object as store_pattern (line 71) captures it
StoreObj(title, address, work_time, phone_number, lat, lon) ==
  [title |-> title, address |-> address, work_time |-> work_time,
   phone_number |-> phone_number, lat |-> lat, lon |-> lon]
StoreObjs ==
  {StoreObj("S1", "A1", "H1", "P1", "40.42", "49.96"),
   StoreObj("S1", "A1", "H2", "P2", "41.09", "45.36"),
   StoreObj("S\\\\2", "A1", "H1", "P1", "40.42", "49.96")}

Markers == {"title", "address", "phone_number"}

\* One self.__next_f.push([...]) argument.  json is "bad" (json.loads or
\* len() raises), "short" (an array of fewer than two elements) or "ok";
\* isstr tells whether chunk[1] is a string; markers are the marker
\* substrings it contains; stores are the matches of store_pattern in it.
\* A string in which store_pattern matches contains the three markers.
Chunk(json, isstr, markers, stores) ==
  [json |-> json, isstr |-> isstr, markers |-> markers, stores |-> stores]
Chunks ==
  {Chunk("ok", TRUE, Markers, l) : l \in SeqsUpTo(StoreObjs, MaxStores)}
  \cup {Chunk("ok", TRUE, {"title", "address"}, <<>>),
        Chunk("ok", FALSE, {}, <<>>),
        Chunk("short", FALSE, {}, <<>>),
        Chunk("bad", FALSE, {}, <<>>)}

\* an element of the store list of __NEXT_DATA__
NdStore(isdict, name, title, address, phone, hours) ==
  [isdict |-> isdict, name |-> name, title |-> title, address |-> address,
   phone |-> phone, hours |-> hours]
NdNotADict == NdStore(FALSE, ABSENT, ABSENT, ABSENT, ABSENT, ABSENT)
NdStores ==
  {NdStore(TRUE, "N1", ABSENT, "A1", "P1", "H1"),
   NdStore(TRUE, ABSENT, "N2", "A1", ABSENT, ABSENT),
   NdNotADict}

\* pageProps: the value under each of the probed keys (line 122)
NdKeys == <<"stores", "branches", "locations", "data", "storesList">>
NdKeySet == {NdKeys[i] : i \in 1..Len(NdKeys)}
NdNoKeys == [k \in NdKeySet |-> ContAbsent]
\* the <script id="__NEXT_DATA__">: k is "none" (no such tag), "bad"
\* (json.loads raises, or the JSON is not an object) or "ok"
NextData(k, props) == [k |-> k, props |-> props]
NextDatas ==
  LET NdContVals ==
        {ContVal("list", l) : l \in SeqsUpTo(NdStores, MaxNdStores)}
        \cup {ContVal("falsy", <<>>), ContVal("object", <<>>)}
  IN
  {NextData("none", NdNoKeys), NextData("bad", NdNoKeys), NextData("ok", NdNoKeys)}
  \cup {NextData("ok", [k \in NdKeySet |-> IF k = "stores" THEN v ELSE ContAbsent]) :
          v \in NdContVals}
  \cup {NextData("ok", [k \in NdKeySet |->
          IF k = "branches" THEN ContVal("list", <<>>)
          ELSE IF k = "data" THEN ContVal("list", <<NdStore(TRUE, "N1", ABSENT, "A1", "P1", "H1")>>)
          ELSE ContAbsent])}

\* a <div> of the store list: whether it holds an accordion item, the text
\* of the title span, whether the item has a content block, and the
\* address, phone and hours found there (ABSENT when the element is missing)
Div(accordion, name, content, address, phone, hours) ==
  [accordion |-> accordion, name |-> name, content |-> content,
   address |-> address, phone |-> phone, hours |-> hours]
Divs ==
  {Div(TRUE, "D1", TRUE, "A1", "P1", "H1"),
   Div(TRUE, ABSENT, TRUE, ABSENT, ABSENT, ABSENT),
   Div(TRUE, "D1", FALSE, ABSENT, ABSENT, ABSENT),
   Div(FALSE, ABSENT, FALSE, ABSENT, ABSENT, ABSENT)}

ArazDoc(chunks, next_data, divs) ==
  [chunks |-> chunks, next_data |-> next_data, divs |-> divs]
\* Every chunk list with a few fallbacks, and every fallback behind chunks
\* that hold no store.  The longer chunk lists are of chunks holding at most
\* one store object.
ArazDocs ==
  LET FewChunks == {c \in Chunks : Len(c.stores) <= 1}
      ChunkLists == SeqsUpTo(FewChunks, MaxChunks) \cup {<<c>> : c \in Chunks}
  IN
  {ArazDoc(c, n, d) :
     c \in ChunkLists,
     n \in {NextData("none", NdNoKeys)},
     d \in {<<>>, <<Div(TRUE, "D1", TRUE, "A1", "P1", "H1")>>}}
  \cup {ArazDoc(c, n, d) :
          c \in {<<>>, <<Chunk("bad", FALSE, {}, <<>>)>>},
          n \in NextDatas, d \in SeqsUpTo(Divs, MaxDivs)}

(***************************************************************************)
(* araz.py : scrape_araz_locations                                         *)
(***************************************************************************)
VARIABLES
  araz_pc,           \* "start", "stream", "nextdata", "ndloop", "html", "done"
  araz_doc,          \* the fetched document
  araz_i,            \* position of the loop in progress
  araz_stores_found, \* stores_found
  araz_stores_data,  \* stores_data of the __NEXT_DATA__ strategy
  araz_branches,     \* branches, the list that is returned
  araz_origin        \* for each record of branches, the strategy it is from

arazVars == <<araz_pc, araz_doc, araz_i, araz_stores_found, araz_stores_data,
              araz_branches, araz_origin>>

ArazRecord(name, address, phone, hours, latitude, longitude) ==
  [name |-> name, address |-> address, phone |-> phone, hours |-> hours,
   latitude |-> latitude, longitude |-> longitude]

\* .replace('\\\\', '\\') of lines 77-80
Unescape(s) == IF s = "S\\\\2" THEN "S\\2" ELSE s

\* lines 77-91
StoreRecord(m) ==
  ArazRecord(Unescape(m.title), Unescape(m.address), Unescape(m.phone_number),
             Unescape(m.work_time), TextCoord(m.lat), TextCoord(m.lon))

\* AddStore letting a later store with the same name and address take the
\* place of the first
AddStoreReplace(found, rec) ==
  IF \E k \in 1..Len(found) : found[k].name = rec.name /\ found[k].address = rec.address
    THEN [k \in 1..Len(found) |->
            IF found[k].name = rec.name /\ found[k].address = rec.address
              THEN rec ELSE found[k]]
    ELSE Append(found, rec)
\* lines 93-95
AddStore(found, rec) ==
  IF \E k \in 1..Len(found) : found[k].name = rec.name /\ found[k].address = rec.address
    THEN found
    ELSE Append(found, rec)

\* lines 75-95 over the matches of one chunk, from match k on
RECURSIVE AddStores(_, _, _)
AddStores(found, stores, k) ==
  IF k > Len(stores) THEN found
  ELSE AddStores(AddStore(found, StoreRecord(stores[k])), stores, k + 1)

\* HasStoreData that lets no chunk through
HasStoreDataNever(chunk) == FALSE
\* line 64
HasStoreData(chunk) == chunk.isstr /\ Markers \subseteq chunk.markers

\* lines 57-99: the body of the loop over the push chunks
ProcessChunk(found, chunk) ==
  IF chunk.json = "ok" /\ HasStoreData(chunk)
    THEN AddStores(found, chunk.stores, 1)
    ELSE found

\* lines 136-141
NdRecord(store) ==
  ArazRecord(Get(store.name, Get(store.title, "N/A")), Get(store.address, ""),
             Get(store.phone, ""), Get(store.hours, ""), AbsentCoord, AbsentCoord)

\* lines 166-201
DivRecord(div) ==
  ArazRecord(Get(div.name, "N/A"), Get(div.address, ""), Get(div.phone, ""),
             Get(div.hours, ""), AbsentCoord, AbsentCoord)

ArazInit ==
  /\ araz_pc = "start"
  /\ araz_doc = ArazDoc(<<>>, NextData("none", NdNoKeys), <<>>)
  /\ araz_i = 1
  /\ araz_stores_found = <<>>
  /\ araz_stores_data = <<>>
  /\ araz_branches = <<>>
  /\ araz_origin = <<>>

\* lines 26-34: the request fails, [] is returned
ArazFetchFails ==
  /\ araz_pc = "start"
  /\ araz_pc' = "done"
  /\ UNCHANGED <<araz_doc, araz_i, araz_stores_found, araz_stores_data,
                 araz_branches, araz_origin>>

\* lines 26-54
ArazFetch ==
  /\ araz_pc = "start"
  /\ \E doc \in ArazDocs : araz_doc' = doc
  /\ araz_pc' = "stream"
  /\ UNCHANGED <<araz_i, araz_stores_found, araz_stores_data, araz_branches,
                 araz_origin>>

\* lines 56-99: one push chunk
ArazChunk ==
  /\ araz_pc = "stream"
  /\ araz_i <= Len(araz_doc.chunks)
  /\ araz_stores_found' = ProcessChunk(araz_stores_found, araz_doc.chunks[araz_i])
  /\ araz_i' = araz_i + 1
  /\ UNCHANGED <<araz_pc, araz_doc, araz_stores_data, araz_branches, araz_origin>>

\* lines 101-107: the streaming strategy found stores and returns them
ArazStreamReturn ==
  /\ araz_pc = "stream"
  /\ araz_i > Len(araz_doc.chunks)
  /\ araz_stores_found # <<>>
  /\ araz_branches' = araz_branches \o araz_stores_found
  /\ araz_origin' = araz_origin \o [k \in 1..Len(araz_stores_found) |-> "stream"]
  /\ araz_pc' = "done"
  /\ UNCHANGED <<araz_doc, araz_i, araz_stores_found, araz_stores_data>>

\* line 101 (false) and lines 110-132: locate the store list of __NEXT_DATA__
ArazNextData ==
  /\ araz_pc = "stream"
  /\ araz_i > Len(araz_doc.chunks)
  /\ araz_stores_found = <<>>
  /\ LET nd == araz_doc.next_data
         j == FirstPresent(NdKeys, nd.props)
         stores_data == IF j = 0 THEN ContAbsent ELSE nd.props[NdKeys[j]]
     IN IF nd.k = "ok" /\ stores_data.k = "list" /\ stores_data.items # <<>>
          THEN /\ araz_stores_data' = stores_data.items
               /\ araz_pc' = "ndloop"
          ELSE /\ araz_stores_data' = <<>>
               /\ araz_pc' = "html"
  /\ araz_i' = 1
  /\ UNCHANGED <<araz_doc, araz_stores_found, araz_branches, araz_origin>>

\* lines 135-143 and 147-148: one store of __NEXT_DATA__; an element that
\* is not an object makes .get raise, which ends the loop at line 147
ArazNextDataStore ==
  /\ araz_pc = "ndloop"
  /\ araz_i <= Len(araz_stores_data)
  /\ LET store == araz_stores_data[araz_i]
     IN IF store.isdict
          THEN /\ araz_branches' = Append(araz_branches, NdRecord(store))
               /\ araz_origin' = Append(araz_origin, "nextdata")
               /\ araz_i' = araz_i + 1
               /\ UNCHANGED araz_pc
          ELSE /\ araz_pc' = "html"
               /\ araz_i' = 1
               /\ UNCHANGED <<araz_branches, araz_origin>>
  /\ UNCHANGED <<araz_doc, araz_stores_found, araz_stores_data>>

\* line 145
ArazNextDataReturn ==
  /\ araz_pc = "ndloop"
  /\ araz_i > Len(araz_stores_data)
  /\ araz_pc' = "done"
  /\ UNCHANGED <<araz_doc, araz_i, araz_stores_found, araz_stores_data,
                 araz_branches, araz_origin>>

\* lines 159-208: one <div> of the HTML strategy
ArazDiv ==
  /\ araz_pc = "html"
  /\ araz_i <= Len(araz_doc.divs)
  /\ LET div == araz_doc.divs[araz_i]
     IN IF div.accordion /\ div.content
          THEN /\ araz_branches' = Append(araz_branches, DivRecord(div))
               /\ araz_origin' = Append(araz_origin, "html")
          ELSE UNCHANGED <<araz_branches, araz_origin>>
  /\ araz_i' = araz_i + 1
  /\ UNCHANGED <<araz_pc, araz_doc, araz_stores_found, araz_stores_data>>

\* line 210
ArazHtmlReturn ==
  /\ araz_pc = "html"
  /\ araz_i > Len(araz_doc.divs)
  /\ araz_pc' = "done"
  /\ UNCHANGED <<araz_doc, araz_i, araz_stores_found, araz_stores_data,
                 araz_branches, araz_origin>>

(***************************************************************************)
(* bravo.py : scrape_bravo_locations                                       *)
(***************************************************************************)
MaxLis == 2           \* most <li> elements in one Bravo article

\* an <li>: its class, whether it holds a <span>, the text of the span
Li(class, span, text) == [class |-> class, span |-> span, text |-> text]
Lis ==
  {Li("location", TRUE, "Hiper"), Li("location", TRUE, "Street 1"),
   Li("phone", TRUE, "P1"), Li("time", TRUE, "H1"), Li("location", FALSE, "")}

\* an <article>: its data-lat, data-lng and data-category attributes
\* (ABSENT when the attribute is missing), the text of its <h3>, its <li>s
\* and the href of its google-maps-link anchor
Article(lat, lng, category, h3, lis, href) ==
  [lat |-> lat, lng |-> lng, category |-> category, h3 |-> h3, lis |-> lis,
   href |-> href]
\* The pages: lists of a few articles, with and without the attributes, and
\* every article alone
BravoDocs ==
  LET FewArticles ==
        {Article(lat, lng, ABSENT, "B1", <<Li("location", TRUE, "Street 1")>>, ABSENT) :
           lat \in {ABSENT, "40.42", "123", "0"}, lng \in {ABSENT, "49.96"}}
      Articles ==
        FewArticles
        \cup {Article("40.42", "49.96", c, "B1", l, "U1") :
                c \in {ABSENT, "2237", "9999"},
                l \in {<<>>, <<Li("location", TRUE, "Hiper")>>,
                       <<Li("location", TRUE, "Super")>>,
                       <<Li("location", TRUE, "Street 1")>>}}
        \cup {Article("40.42", "49.96", ABSENT, ABSENT, l, ABSENT) :
                l \in SeqsUpTo(Lis, MaxLis)}
  IN SeqsUpTo(FewArticles, MaxArticles) \cup {<<a>> : a \in Articles}

VARIABLES
  bravo_pc,        \* "start", "loop", "done"
  bravo_doc,       \* the <article> elements of the fetched page
  bravo_articles,  \* articles, the result of find_all (line 40)
  bravo_i,         \* position of the for loop of line 44
  bravo_branches   \* branches, the list that is returned

bravoVars == <<bravo_pc, bravo_doc, bravo_articles, bravo_i, bravo_branches>>

\* line 40: find_all('article', attrs={'data-lat': True, 'data-lng': True})
FindArticles(doc) == SelectSeq(doc, LAMBDA a : a.lat # ABSENT /\ a.lng # ABSENT)

StoreFormats == {"Hiper", "Super", "Market", "Ekspres", "Premium"}

\* lines 58-72: the effect of one <li> on (branch_type, phone, address, hours)
ApplyLi(f, li) ==
  IF ~li.span THEN f
  ELSE IF li.class = "location"
    THEN IF f.type = "" /\ li.text \in StoreFormats
           THEN [f EXCEPT !.type = li.text]
           ELSE [f EXCEPT !.address = li.text]
  ELSE IF li.class = "phone" THEN [f EXCEPT !.phone = li.text]
  ELSE IF li.class = "time" THEN [f EXCEPT !.hours = li.text]
  ELSE f

RECURSIVE ApplyLis(_, _, _)
ApplyLis(f, lis, k) ==
  IF k > Len(lis) THEN f ELSE ApplyLis(ApplyLi(f, lis[k]), lis, k + 1)

\* category_map with no entry
category_map_none(c) == ""
\* lines 82-87
category_map(c) ==
  CASE c = "2237" -> "Hiper"
    [] c = "2236" -> "Super"
    [] c = "2235" -> "Market"
    [] c = "2238" -> "Ekspres"
    [] OTHER      -> ""

\* lines 75-76: article.get('data-lat', '0')
BravoCoord(attr) == TextCoord(Get(attr, "0"))

\* lines 47-108
BravoRecord(article) ==
  LET f == ApplyLis([type |-> "", phone |-> "", address |-> "", hours |-> ""],
                    article.lis, 1)
      category == Get(article.category, "")
  IN [name |-> Get(article.h3, "N/A"),
      type |-> IF f.type = "" /\ category_map(category) # ""
                 THEN category_map(category) ELSE f.type,
      phone |-> f.phone, address |-> f.address, hours |-> f.hours,
      latitude |-> BravoCoord(article.lat), longitude |-> BravoCoord(article.lng),
      category_id |-> category, google_maps_url |-> Get(article.href, "")]

BravoInit ==
  /\ bravo_pc = "start"
  /\ bravo_doc = <<>>
  /\ bravo_articles = <<>>
  /\ bravo_i = 1
  /\ bravo_branches = <<>>

\* lines 26-34
BravoFetchFails ==
  /\ bravo_pc = "start"
  /\ bravo_pc' = "done"
  /\ UNCHANGED <<bravo_doc, bravo_articles, bravo_i, bravo_branches>>

\* lines 26-42
BravoFetch ==
  /\ bravo_pc = "start"
  /\ \E doc \in BravoDocs :
       /\ bravo_doc' = doc
       /\ bravo_articles' = FindArticles(doc)
  /\ bravo_pc' = "loop"
  /\ UNCHANGED <<bravo_i, bravo_branches>>

\* lines 44-115
BravoArticle ==
  /\ bravo_pc = "loop"
  /\ bravo_i <= Len(bravo_articles)
  /\ bravo_branches' = Append(bravo_branches, BravoRecord(bravo_articles[bravo_i]))
  /\ bravo_i' = bravo_i + 1
  /\ UNCHANGED <<bravo_pc, bravo_doc, bravo_articles>>

\* line 117
BravoReturn ==
  /\ bravo_pc = "loop"
  /\ bravo_i > Len(bravo_articles)
  /\ bravo_pc' = "done"
  /\ UNCHANGED <<bravo_doc, bravo_articles, bravo_i, bravo_branches>>

(***************************************************************************)
(* oba.py : scrape_oba_locations                                           *)
(***************************************************************************)
MaxObaDivs == 2       \* most branch <div>s in an OBA document

\* a <div class="js-map-coordinates">: data-lat, data-lng, the text of its
\* <h3 class="fs-16"> and of its <p class="color-gray"> (ABSENT when missing)
ObaDiv(lat, lng, h3, p) == [lat |-> lat, lng |-> lng, h3 |-> h3, p |-> p]
ObaDivs ==
  {ObaDiv(lat, lng, "O1", "A1") :
     lat \in {ABSENT, "40.42", "123"}, lng \in {ABSENT, "49.96", "200.0"}}
  \cup {ObaDiv("40.42", "49.96", h, a) : h \in {ABSENT, "O1", "O2"}, a \in {ABSENT, "O1", "A1"}}

VARIABLES
  oba_pc,          \* "start", "loop", "done"
  oba_branch_divs, \* branch_divs (line 42)
  oba_i,           \* position of the for loop of line 46
  oba_branches     \* branches, the list that is returned

obaVars == <<oba_pc, oba_branch_divs, oba_i, oba_branches>>

\* lines 49-71
ObaRecord(div) ==
  LET name == Get(div.h3, "")
      address == Get(div.p, "")
  IN [name |-> name, address |-> IF address = name THEN "" ELSE address,
      phone |-> "", hours |-> "",
      latitude |-> IF div.lat = ABSENT THEN NoCoord ELSE TextCoord(div.lat),
      longitude |-> IF div.lng = ABSENT THEN NoCoord ELSE TextCoord(div.lng)]

ObaInit ==
  /\ oba_pc = "start"
  /\ oba_branch_divs = <<>>
  /\ oba_i = 1
  /\ oba_branches = <<>>

\* lines 26-34
ObaFetchFails ==
  /\ oba_pc = "start"
  /\ oba_pc' = "done"
  /\ UNCHANGED <<oba_branch_divs, oba_i, oba_branches>>

\* lines 26-44
ObaFetch ==
  /\ oba_pc = "start"
  /\ \E divs \in SeqsUpTo(ObaDivs, MaxObaDivs) : oba_branch_divs' = divs
  /\ oba_pc' = "loop"
  /\ UNCHANGED <<oba_i, oba_branches>>

\* lines 46-78
ObaBranch ==
  /\ oba_pc = "loop"
  /\ oba_i <= Len(oba_branch_divs)
  /\ oba_branches' = Append(oba_branches, ObaRecord(oba_branch_divs[oba_i]))
  /\ oba_i' = oba_i + 1
  /\ UNCHANGED <<oba_pc, oba_branch_divs>>

\* line 80
ObaReturn ==
  /\ oba_pc = "loop"
  /\ oba_i > Len(oba_branch_divs)
  /\ oba_pc' = "done"
  /\ UNCHANGED <<oba_branch_divs, oba_i, oba_branches>>

(***************************************************************************)
(* analyze.py : the rows of the combined table                             *)
(***************************************************************************)
MaxWords == 2         \* most words in an address

\* An address is NaN, blank ("" or white space only) or text.  Text is a
\* sequence of words (maximal runs of \w characters), each followed by a
\* separator: "space" (white space only), "comma" (", ") or "dot" (". ").
Token(word, sep) == [word |-> word, sep |-> sep]
Vocabulary ==
  {"Baki", "Sumqayit", "Bakixanov", "Nesimi", "Xacmaz", "yeni", "rayonu",
   "seheri", "metrosu", "pr", "kuc", "GENCE", "BAKI", "ray", "ikinci"}
Tokens ==
  {Token(w, sp) : w \in Vocabulary, sp \in {"space", "comma"}} \cup {Token("pr", "dot")}

Address(k, toks) == [k |-> k, toks |-> toks]
Addresses ==
  {Address("nan", <<>>), Address("blank", <<>>)}
  \cup {Address("text", t) : t \in SeqsUpTo(Tokens, MaxWords) \ {<<>>}}

\* a latitude or longitude cell after load_data: NaN or a float, kept in
\* units of 1/10000 degree
NaN == [na |-> TRUE, v |-> 0]
Num(v) == [na |-> FALSE, v |-> v]
\* Baki centre, Sumqayit centre (also within 0.5 degree of Baki), a point
\* at 0.5 degree from Baki centre and farther from the others, far from
\* every centre inside the Greater Baku box, on the edge of the box, far
\* from every centre outside the box
Points ==
  {<<Num(404093), Num(498671)>>, <<Num(405894), Num(496684)>>,
   <<Num(407093), Num(502671)>>,
   <<Num(404000), Num(504500)>>, <<Num(401000), Num(504500)>>,
   <<Num(395000), Num(470000)>>,
   <<NaN, NaN>>, <<Num(404093), NaN>>, <<NaN, Num(498671)>>}

Row(address, latitude, longitude) ==
  [address |-> address, latitude |-> latitude, longitude |-> longitude]
\* every address with a few points, and every point with the addresses of at
\* most one word
Rows ==
  LET FewPoints == {<<NaN, NaN>>, <<Num(404093), NaN>>, <<Num(405894), Num(496684)>>}
      ShortAddresses == {a \in Addresses : Len(a.toks) <= 1}
  IN {Row(a, p[1], p[2]) : a \in Addresses, p \in FewPoints}
     \cup {Row(a, p[1], p[2]) : a \in ShortAddresses, p \in Points}

(***************************************************************************)
(* analyze.py : infer_city_from_coordinates                                *)
(***************************************************************************)
\* lines 45-60, in the order of the dict
city_coords ==
  <<[city |-> "Baki",       lat |-> 404093, lon |-> 498671],
    [city |-> "Sumqayit",   lat |-> 405894, lon |-> 496684],
    [city |-> "Gence",      lat |-> 406828, lon |-> 463606],
    [city |-> "Mingecevir", lat |-> 407639, lon |-> 470497],
    [city |-> "Xirdalan",   lat |-> 404527, lon |-> 497389],
    [city |-> "Seki",       lat |-> 411974, lon |-> 471704],
    [city |-> "Naxcivan",   lat |-> 392090, lon |-> 454120],
    [city |-> "Sirvan",     lat |-> 399369, lon |-> 489200],
    [city |-> "Lenkeran",   lat |-> 387542, lon |-> 488510],
    [city |-> "Qazax",      lat |-> 410924, lon |-> 453654],
    [city |-> "Zaqatala",   lat |-> 416317, lon |-> 466445],
    [city |-> "Samaxi",     lat |-> 406304, lon |-> 486389],
    [city |-> "Quba",       lat |-> 413614, lon |-> 485128],
    [city |-> "Masalli",    lat |-> 390352, lon |-> 486717]>>

Abs(x) == IF x < 0 THEN 0 - x ELSE x

\* line 73: 0.5 degree
Threshold == 5000
\* stands for every squared distance above the square of the threshold
FarSq == Threshold * Threshold + 1

\* line 67, squared.  A centre more than 0.5 degree away along one axis is
\* more than 0.5 degree away: its squared distance is kept as FarSq, which
\* keeps the products inside 32 bits and changes no result, since line 73
\* discards the nearest centre whenever the minimum is above the threshold.
DistSq(lat, lon, c) ==
  IF Abs(lat - c.lat) > Threshold \/ Abs(lon - c.lon) > Threshold
    THEN FarSq
    ELSE LET d == (lat - c.lat) * (lat - c.lat) + (lon - c.lon) * (lon - c.lon)
         IN IF d >= FarSq THEN FarSq ELSE d

\* lines 63-70: the loop, from centre k on, with (min_dist, nearest_city);
\* min_dist is none while it is float('inf')
RECURSIVE NearestFrom(_, _, _, _)
NearestFrom(lat, lon, k, best) ==
  IF k > Len(city_coords) THEN best
  ELSE LET d == DistSq(lat, lon, city_coords[k])
       IN IF best.none \/ d < best.dist
            THEN NearestFrom(lat, lon, k + 1,
                             [none |-> FALSE, dist |-> d, city |-> city_coords[k].city])
            ELSE NearestFrom(lat, lon, k + 1, best)

\* infer_city_from_coordinates naming the first centre of the table within
\* the threshold
infer_city_first_within(lat, lon) ==
  LET within(k) == DistSq(lat, lon, city_coords[k]) < FarSq
  IN IF \E k \in 1..Len(city_coords) : within(k)
       THEN city_coords[CHOOSE k \in 1..Len(city_coords) :
                          within(k) /\ \A h \in 1..(k - 1) : ~within(h)].city
       ELSE IF 401000 < lat /\ lat < 407000 /\ 495000 < lon /\ lon < 505000
              THEN "Baki"
              ELSE "Regional"
\* infer_city_from_coordinates with the bounds of the box included
infer_city_box_inclusive(lat, lon) ==
  LET best == NearestFrom(lat, lon, 1, [none |-> TRUE, dist |-> 0, city |-> "Baki"])
  IN IF best.none \/ best.dist >= FarSq
       THEN IF 401000 <= lat /\ lat <= 407000 /\ 495000 <= lon /\ lon <= 505000
              THEN "Baki"
              ELSE "Regional"
       ELSE best.city
\* lines 42-78
infer_city_from_coordinates(lat, lon) ==
  LET best == NearestFrom(lat, lon, 1, [none |-> TRUE, dist |-> 0, city |-> "Baki"])
  IN IF best.none \/ best.dist >= FarSq
       THEN IF 401000 < lat /\ lat < 407000 /\ 495000 < lon /\ lon < 505000
              THEN "Baki"
              ELSE "Regional"
       ELSE best.city

(***************************************************************************)
(* analyze.py : extract_city_from_address                                  *)
(* (Azerbaijani letters are written with their nearest ASCII letter.)       *)
(***************************************************************************)
\* lines 94-98
major_cities ==
  <<"Baki", "Sumqayit", "Gence", "Mingecevir", "Xirdalan",
    "Naxcivan", "Seki", "Qazax", "Zaqatala", "Masalli",
    "Agdas", "Semkir", "Berde", "Salyan", "Agstafa",
    "Haciqabul", "Agcabedi", "Serur", "Celilabad", "Lenkeran",
    "Sirvan", "Quba", "Samaxi", "Yevlax", "Goycay">>

\* city.lower() in word.lower(), for the words of the vocabulary.  The
\* lower() of the capital letter I is the dotted i, which is not the dotless
\* letter the names of Baki and Sumqayit are written with: "BAKI" holds no
\* city name.
WordContainsCity(word, city) ==
  \/ city = "Baki" /\ word \in {"Baki", "Bakixanov"}
  \/ city = "Sumqayit" /\ word = "Sumqayit"
  \/ city = "Gence" /\ word = "GENCE"

\* line 101: a city name has no separator in it, so it occurs in the
\* address exactly when it occurs in one of its words
CityInAddress(toks, city) ==
  \E k \in 1..Len(toks) : WordContainsCity(toks[k].word, city)

\* FirstCity by position in the address: the city of the leftmost word that
\* holds one
FirstCityLeftmost(toks) ==
  LET holds(k) == \E c \in 1..Len(major_cities) : WordContainsCity(toks[k].word, major_cities[c])
  IN IF \E k \in 1..Len(toks) : holds(k)
       THEN LET k == CHOOSE k \in 1..Len(toks) : holds(k) /\ \A h \in 1..(k - 1) : ~holds(h)
            IN CHOOSE c \in 1..Len(major_cities) :
                 /\ WordContainsCity(toks[k].word, major_cities[c])
                 /\ \A b \in 1..(c - 1) : ~WordContainsCity(toks[k].word, major_cities[b])
       ELSE 0
\* lines 100-102: position in major_cities of the first city found, or 0
FirstCity(toks) ==
  IF \E c \in 1..Len(major_cities) : CityInAddress(toks, major_cities[c])
    THEN CHOOSE c \in 1..Len(major_cities) :
           /\ CityInAddress(toks, major_cities[c])
           /\ \A b \in 1..(c - 1) : ~CityInAddress(toks, major_cities[b])
    ELSE 0

\* str.capitalize() for the words of the vocabulary
Capitalize(word) ==
  CASE word = "yeni"    -> "Yeni"
    [] word = "rayonu"  -> "Rayonu"
    [] word = "seheri"  -> "Seheri"
    [] word = "metrosu" -> "Metrosu"
    [] word = "pr"      -> "Pr"
    [] word = "kuc"     -> "Kuc"
    [] word = "ray"     -> "Ray"
    [] word = "ikinci"  -> "Ikinci (undotted)"   \* not the spelling of line 122
    [] word = "GENCE"   -> "Gence"
    [] word = "BAKI"    -> "Baki (dotted)"   \* not the spelling of the city
    [] OTHER            -> word

\* the word starts with "ray" (it matches (ray|rayonu) under IGNORECASE)
StartsRayon(word) == word \in {"rayonu", "ray"}
\* the word starts with "seh" or "qes"
StartsSettlement(word) == word = "seheri"

\* re.search of r'(\w+)\s+(ray|rayonu)': position of the leftmost word that
\* is followed by white space only and then by such a word; 0 if none
RayonMatch(toks) ==
  LET hit(k) == k < Len(toks) /\ toks[k].sep = "space" /\ StartsRayon(toks[k + 1].word)
  IN IF \E k \in 1..Len(toks) : hit(k)
       THEN CHOOSE k \in 1..Len(toks) : hit(k) /\ \A h \in 1..(k - 1) : ~hit(h)
       ELSE 0
\* the same for r'(\w+)\s+(seh|seheri|qes|qesebesi)'
SettlementMatch(toks) ==
  LET hit(k) == k < Len(toks) /\ toks[k].sep = "space" /\ StartsSettlement(toks[k + 1].word)
  IN IF \E k \in 1..Len(toks) : hit(k)
       THEN CHOOSE k \in 1..Len(toks) : hit(k) /\ \A h \in 1..(k - 1) : ~hit(h)
       ELSE 0

\* lines 109-114
BakuDistricts ==
  {"Nesimi", "Nerimanov", "Xetai", "Yasamal", "Sebail", "Nizami",
   "Bineqedi", "Sabuncu", "Suraxani", "Qaradag", "Xezer", "Abseron"}
\* district_map that maps no district
district_map_none(district) == district
\* line 115
district_map(district) == IF district \in BakuDistricts THEN "Baki" ELSE district

\* CommonWords that filters nothing
CommonWordsNone == {}
\* line 122
CommonWords == {"Yeni", "Kohne", "Birinci", "Ikinci", "Boyuk", "Kicik"}

\* HasBakuKeyword without the abbreviation 'pr.'
HasBakuKeywordMetro(toks) ==
  \E k \in 1..Len(toks) : toks[k].word = "metrosu"
\* lines 126-127: 'metrosu', 'metro', 'prospekt' occur inside a word,
\* 'pr.' is a word ending in "pr" followed by a dot
HasBakuKeyword(toks) ==
  \E k \in 1..Len(toks) :
    \/ toks[k].word = "metrosu"
    \/ toks[k].word = "pr" /\ toks[k].sep = "dot"

\* HasCoords looking at the latitude only
HasLatitude(row) == ~row.latitude.na
\* lines 87 and 131
HasCoords(row) == ~row.latitude.na /\ ~row.longitude.na

\* CoordsOrRegional without the final default
CoordsOrNothing(row) ==
  IF HasCoords(row)
    THEN infer_city_from_coordinates(row.latitude.v, row.longitude.v)
    ELSE ""
\* lines 130-134
CoordsOrRegional(row) ==
  IF HasCoords(row)
    THEN infer_city_from_coordinates(row.latitude.v, row.longitude.v)
    ELSE "Regional"

\* lines 117-134
SettlementOrLater(row) ==
  LET toks == row.address.toks
      s == SettlementMatch(toks)
  IN IF s # 0 /\ Capitalize(toks[s].word) \notin CommonWords
       THEN Capitalize(toks[s].word)
       ELSE IF HasBakuKeyword(toks) THEN "Baki" ELSE CoordsOrRegional(row)

\* lines 81-134
extract_city_from_address(row) ==
  IF row.address.k \in {"nan", "blank"}
    THEN IF HasCoords(row)
           THEN infer_city_from_coordinates(row.latitude.v, row.longitude.v)
           ELSE "Unknown"
    ELSE LET toks == row.address.toks
             c == FirstCity(toks)
             r == RayonMatch(toks)
         IN IF c # 0 THEN major_cities[c]
            ELSE IF r # 0 THEN district_map(Capitalize(toks[r].word))
            ELSE SettlementOrLater(row)

VARIABLES
  cls_pc,          \* "start", "row" (a row is at hand), "done" (labelled)
  cls_row,         \* the row handed to extract_city_from_address
  cls_city         \* the label it returned

clsVars == <<cls_pc, cls_row, cls_city>>

ClsInit ==
  /\ cls_pc = "start"
  /\ cls_row = Row(Address("nan", <<>>), NaN, NaN)
  /\ cls_city = ""

\* df.apply hands a row of the table to the classifier
ClsTakeRow ==
  /\ cls_pc = "start"
  /\ \E row \in Rows : cls_row' = row
  /\ cls_pc' = "row"
  /\ UNCHANGED cls_city

\* the call returns and the label is stored in the city column
ClsClassify ==
  /\ cls_pc = "row"
  /\ cls_city' = extract_city_from_address(cls_row)
  /\ cls_pc' = "done"
  /\ UNCHANGED cls_row

(***************************************************************************)
(* rahat.py : the page of rahatmarket.az                                   *)
(*                                                                         *)
(* A text of the locations script is a sequence of tokens separated by     *)
(* blanks; "Rahat Market" is one token, each parenthesis is one token.     *)
(* Backslashes and outer blanks (removed by .replace('\\', '').strip())    *)
(* are not part of the tokens, so a blank text is the empty sequence.      *)
(***************************************************************************)
MaxTokens == 2
MaxEntries == 2

RM == "Rahat Market"
\* in place of a text that is not there (no anchor, no match)
NoText == <<ABSENT>>

RahatTexts ==
  SeqsUpTo({RM, "(", ")", "A1", "X"}, MaxTokens)
  \cup {<<RM, "(", "A1", ")">>, <<RM, "X", "(", "A1", ")">>,
        <<RM, "(", "A1", ")", "X">>, <<RM, "(", "A1">>, <<RM, "X", RM>>,
        <<RM, "X", RM, "(", "A1", ")">>, <<"X", "(", "A1", ")">>}

\* [\d.]+ : a non-empty run of digits and dots
DigitsDots(t) == t \in {"40.42", "49.96", "1.2.3"}

\* One element of the locations array: [new google.maps.LatLng(lat, lng),
\* 'text', ...]; anchor is the text of the <a> that follows as a quoted
\* third element, NoText when the element has no such anchor.
LocEntry(lat, lng, text, anchor) ==
  [lat |-> lat, lng |-> lng, text |-> text, anchor |-> anchor]
RahatEntries ==
  {LocEntry("40.42", "49.96", t, NoText) : t \in RahatTexts}
  \cup {LocEntry("40.42", "49.96", t, <<"A1">>) : t \in {<<>>, <<RM>>, <<"X">>}}
  \cup {LocEntry("-41.09", "45.36", <<"X">>, <<"A1">>),
        LocEntry("1.2.3", "49.96", <<"X">>, NoText)}

\* a <script>: locations tells whether its string holds 'var locations'
RahatScript(locations, entries) == [locations |-> locations, entries |-> entries]
\* the page: its <script> elements and the texts of its a.marker-link
RahatDoc(scripts, links) == [scripts |-> scripts, links |-> links]
RahatDocs ==
  LET FewEntries == {LocEntry("40.42", "49.96", <<"X">>, <<"A1">>),
                     LocEntry("40.42", "49.96", <<RM, "(", "A1", ")">>, NoText),
                     LocEntry("-41.09", "45.36", <<"X">>, <<"A1">>)}
      EntryLists == SeqsUpTo(FewEntries, MaxEntries) \cup {<<e>> : e \in RahatEntries}
      LinkLists == {<<>>, <<<<RM>>, <<"X">>, <<>>>>}
  IN {RahatDoc(<<RahatScript(TRUE, l)>>, k) : l \in EntryLists, k \in LinkLists}
     \cup {RahatDoc(sc, k) :
             sc \in {<<>>, <<RahatScript(FALSE, <<>>)>>,
                     <<RahatScript(FALSE, <<>>),
                       RahatScript(TRUE, <<LocEntry("40.42", "49.96", <<"X">>, NoText)>>)>>,
                     <<RahatScript(TRUE, <<>>),
                       RahatScript(TRUE, <<LocEntry("40.42", "49.96", <<"X">>, <<"A1">>)>>)>>},
             k \in LinkLists}

(***************************************************************************)
(* rahat.py : scrape_rahat_locations                                       *)
(***************************************************************************)
VARIABLES
  rahat_pc,        \* "start", "scripts", "links", "done"
  rahat_doc,       \* the fetched page
  rahat_i,         \* position of the for loop of line 45
  rahat_branches,  \* branches, the list that is returned
  rahat_origin     \* for each record of branches, the pattern it is from

rahatVars == <<rahat_pc, rahat_doc, rahat_i, rahat_branches, rahat_origin>>

RahatInit ==
  /\ rahat_pc = "start"
  /\ rahat_doc = RahatDoc(<<>>, <<>>)
  /\ rahat_i = 1
  /\ rahat_branches = <<>>
  /\ rahat_origin = <<>>

RahatRecord(name, address, latitude, longitude) ==
  [name |-> name, address |-> address, phone |-> "", hours |-> "",
   latitude |-> latitude, longitude |-> longitude]

\* line 57: the elements full_pattern matches
FullMatches(entries) ==
  SelectSeq(entries, LAMBDA e : DigitsDots(e.lat) /\ DigitsDots(e.lng)
                                /\ e.anchor # NoText)
\* line 84: the elements name_pattern matches
NameMatches(entries) ==
  SelectSeq(entries, LAMBDA e : DigitsDots(e.lat) /\ DigitsDots(e.lng))

\* lines 63-75
FullRecord(m) ==
  RahatRecord(IF m.text = <<>> THEN <<RM>> ELSE m.text, m.anchor,
              TextCoord(m.lat), TextCoord(m.lng))

\* a search that never matches
ParenMatchNone(text) == NoText
\* line 99: re.search(r'Rahat Market\s*\(([^)]*)\)', text); the captured
\* group, NoText when there is no match
ParenMatch(text) ==
  LET Opens == {i \in 1..(Len(text) - 2) :
                  /\ text[i] = RM /\ text[i + 1] = "("
                  /\ \E j \in (i + 2)..Len(text) : text[j] = ")"}
  IN IF Opens = {} THEN NoText
     ELSE LET i == CHOOSE a \in Opens : \A b \in Opens : a <= b
              j == CHOOSE a \in (i + 2)..Len(text) :
                     text[a] = ")" /\ \A b \in (i + 2)..(a - 1) : text[b] # ")"
          IN SubSeq(text, i + 2, j - 1)

\* lines 88-116
NameRecord(m) ==
  LET address ==
        IF Len(m.text) >= 1 /\ m.text[1] = RM
          THEN IF ParenMatch(m.text) # NoText
                 THEN ParenMatch(m.text)
                 ELSE SelectSeq(m.text, LAMBDA t : t # RM)
          ELSE m.text
  IN RahatRecord(<<RM>>, address, TextCoord(m.lat), TextCoord(m.lng))

\* lines 131-146
LinkRecords(links) ==
  LET named == SelectSeq(links, LAMBDA name : name # <<>> /\ name # <<RM>>)
  IN [k \in 1..Len(named) |-> RahatRecord(named[k], <<>>, NoCoord, NoCoord)]

\* lines 27-35: requests.get or raise_for_status raises
RahatFetchFails ==
  /\ rahat_pc = "start"
  /\ rahat_pc' = "done"
  /\ UNCHANGED <<rahat_doc, rahat_i, rahat_branches, rahat_origin>>

\* lines 27-43
RahatFetch ==
  /\ rahat_pc = "start"
  /\ \E doc \in RahatDocs : rahat_doc' = doc
  /\ rahat_pc' = "scripts"
  /\ UNCHANGED <<rahat_i, rahat_branches, rahat_origin>>

\* lines 45-121: one pass of the loop over the scripts; the first script
\* holding 'var locations' is the only one the patterns are applied to
RahatScriptStep ==
  /\ rahat_pc = "scripts"
  /\ rahat_i <= Len(rahat_doc.scripts)
  /\ LET script == rahat_doc.scripts[rahat_i]
         full == FullMatches(script.entries)
         loose == NameMatches(script.entries)
     IN IF ~script.locations
          THEN /\ rahat_i' = rahat_i + 1
               /\ UNCHANGED <<rahat_pc, rahat_branches, rahat_origin>>
          ELSE /\ rahat_pc' = "links"
               /\ IF full # <<>>
                    THEN /\ rahat_branches' = [k \in 1..Len(full) |-> FullRecord(full[k])]
                         /\ rahat_origin' = [k \in 1..Len(full) |-> "full"]
                    ELSE /\ rahat_branches' = [k \in 1..Len(loose) |-> NameRecord(loose[k])]
                         /\ rahat_origin' = [k \in 1..Len(loose) |-> "name"]
               /\ UNCHANGED rahat_i
  /\ UNCHANGED rahat_doc

\* lines 123-148: the marker links are read when branches is empty
RahatReturn ==
  /\ \/ rahat_pc = "links"
     \/ rahat_pc = "scripts" /\ rahat_i > Len(rahat_doc.scripts)
  /\ IF rahat_branches = <<>>
       THEN /\ rahat_branches' = LinkRecords(rahat_doc.links)
            /\ rahat_origin' = [k \in 1..Len(LinkRecords(rahat_doc.links)) |-> "link"]
       ELSE UNCHANGED <<rahat_branches, rahat_origin>>
  /\ rahat_pc' = "done"
  /\ UNCHANGED <<rahat_doc, rahat_i>>

(***************************************************************************)
(* The data directory: the main() of each adapter and combine.py           *)
(*                                                                         *)
(* A CSV file is its header (the field names of its first line) and its    *)
(* data rows; a row read by csv.DictReader is a function from the header's *)
(* fields to texts.                                                        *)
(***************************************************************************)
MaxRuns == 2

\* combine.py, main: input_files, by the base name of each file
Sources == <<"bravo", "araz", "rahat", "oba", "tam">>

\* line 35: os.path.basename(file_path).replace('.csv', '').upper()
ChainName(src) ==
  CASE src = "bravo" -> "BRAVO" [] src = "araz" -> "ARAZ" [] src = "rahat" -> "RAHAT"
    [] src = "oba" -> "OBA" [] src = "tam" -> "TAM"

\* fieldnames of save_to_csv of each adapter
AdapterFields(src) ==
  IF src = "bravo"
    THEN <<"name", "type", "phone", "address", "hours", "latitude", "longitude",
           "category_id", "google_maps_url">>
    ELSE <<"name", "address", "phone", "hours", "latitude", "longitude">>

Range(seq) == {seq[k] : k \in 1..Len(seq)}

NoFile == [exists |-> FALSE, header |-> <<>>, rows |-> <<>>]
CsvFile(header, rows) == [exists |-> TRUE, header |-> header, rows |-> rows]

\* a record as an adapter returns it, reduced to its name and its address
\* (Bravo's also have a type); the other cells are empty
SavedRow(src, name, address) ==
  [f \in Range(AdapterFields(src)) |->
     CASE f = "name" -> name [] f = "address" -> address
       [] f = "type" -> "Hiper" [] OTHER -> ""]

\* the lists scrape_<src>_locations may return after a fetch that succeeded
Batches(src) ==
  {<<>>, <<SavedRow(src, "S1", "A1")>>,
   <<SavedRow(src, "S1", "A1"), SavedRow(src, "S1", "A1")>>}

\* what the data directory may hold before the programs run: nothing, or
\* files left there by other means
InitialDirs ==
  LET Empty == [s \in Range(Sources) |-> NoFile]
      Custom == CsvFile(<<"name", "chain", "Zone">>,
                        <<[name |-> "S1", chain |-> "OLD", Zone |-> "Z1"],
                          [name |-> "S2", chain |-> "", Zone |-> ""]>>)
      HeaderOnly == CsvFile(<<"name", "address", "region">>, <<>>)
  IN {Empty,
      [Empty EXCEPT !["tam"] = Custom],
      [Empty EXCEPT !["oba"] = HeaderOnly],
      [Empty EXCEPT !["tam"] = Custom,
                    !["bravo"] = CsvFile(AdapterFields("bravo"),
                                         <<SavedRow("bravo", "S1", "A1")>>)]}

VARIABLES
  pipe_pc,        \* "start", "ready", "combined" (combine.py has just run)
  pipe_files,     \* data/<src>.csv for each source
  pipe_combined,  \* data/combined.csv
  pipe_origin,    \* for each data row of data/combined.csv, its source
  pipe_last,      \* for each source, how its latest adapter run ended
  pipe_runs       \* number of adapter runs so far

pipeVars == <<pipe_pc, pipe_files, pipe_combined, pipe_origin, pipe_last, pipe_runs>>

PipeInit ==
  /\ pipe_pc = "start"
  /\ pipe_files = [s \in Range(Sources) |-> NoFile]
  /\ pipe_combined = NoFile
  /\ pipe_origin = <<>>
  /\ pipe_last = [s \in Range(Sources) |-> "none"]
  /\ pipe_runs = 0

\* the rows of a file with only the first one read
ReadRowsFirstOnly(file, src) ==
  [k \in 1..(IF file.rows = <<>> THEN 0 ELSE 1) |->
     [src |-> src,
      row |-> [f \in DOMAIN file.rows[k] \cup {"chain"} |->
                 IF f = "chain" THEN ChainName(src) ELSE file.rows[k][f]]]]
\* the rows of a file with the chain cell they came with left in place
ReadRowsKeepChain(file, src) ==
  [k \in 1..Len(file.rows) |->
     [src |-> src,
      row |-> [f \in DOMAIN file.rows[k] \cup {"chain"} |->
                 IF f \in DOMAIN file.rows[k] THEN file.rows[k][f] ELSE ChainName(src)]]]
\* lines 39-47: the rows of one file, each with row['chain'] = chain_name
ReadRows(file, src) ==
  [k \in 1..Len(file.rows) |->
     [src |-> src,
      row |-> [f \in DOMAIN file.rows[k] \cup {"chain"} |->
                 IF f = "chain" THEN ChainName(src) ELSE file.rows[k][f]]]]

\* lines 29-49: combined_data after the first n input files
RECURSIVE CombinedData(_, _)
CombinedData(files, n) ==
  IF n = 0 THEN <<>>
  ELSE CombinedData(files, n - 1)
       \o (IF files[Sources[n]].exists THEN ReadRows(files[Sources[n]], Sources[n])
           ELSE <<>>)

\* line 59
common_fields == <<"chain", "name", "address", "phone", "hours", "latitude", "longitude">>

\* sorted() in the opposite order
SortedDescending(fields) ==
  SelectSeq(<<"type", "region", "google_maps_url", "category_id", "Zone">>,
            LAMBDA f : f \in fields)
\* sorted() of a set of field names: the order of the code points, capital
\* letters before small ones
Sorted(fields) ==
  SelectSeq(<<"Zone", "category_id", "google_maps_url", "region", "type">>,
            LAMBDA f : f \in fields)

\* lines 54-68: the file DictWriter writes; a key a row lacks gives an
\* empty cell
WriteCombined(data) ==
  LET all_fields == UNION {DOMAIN data[k].row : k \in 1..Len(data)}
      fieldnames == common_fields \o Sorted(all_fields \ Range(common_fields))
  IN CsvFile(fieldnames,
             [k \in 1..Len(data) |->
                [f \in Range(fieldnames) |->
                   IF f \in DOMAIN data[k].row THEN data[k].row[f] ELSE ""]])

\* the data directory as the programs find it
PipeFiles ==
  /\ pipe_pc = "start"
  /\ \E dir \in InitialDirs : pipe_files' = dir
  /\ pipe_pc' = "ready"
  /\ UNCHANGED <<pipe_combined, pipe_origin, pipe_last, pipe_runs>>

\* main() of an adapter whose fetch fails: scrape returns [] and nothing is
\* saved (araz.py 32-34, 250, 260-261, and the same lines of the others)
AdapterFetchFails ==
  /\ pipe_pc # "start" /\ pipe_runs < MaxRuns
  /\ \E src \in Range(Sources) : pipe_last' = [pipe_last EXCEPT ![src] = "failed"]
  /\ pipe_runs' = pipe_runs + 1
  /\ pipe_pc' = "ready"
  /\ UNCHANGED <<pipe_files, pipe_combined, pipe_origin>>

\* main() of an adapter whose fetch succeeds: the file is written when the
\* list is not empty (araz.py 250-253, 221-234, and the same lines of the
\* others)
AdapterMain ==
  /\ pipe_pc # "start" /\ pipe_runs < MaxRuns
  /\ \E src \in Range(Sources) : \E branches \in Batches(src) :
       /\ pipe_files' = IF branches = <<>> THEN pipe_files
                         ELSE [pipe_files EXCEPT ![src] = CsvFile(AdapterFields(src), branches)]
       /\ pipe_last' = [pipe_last EXCEPT ![src] = IF branches = <<>> THEN "empty" ELSE "ok"]
  /\ pipe_runs' = pipe_runs + 1
  /\ pipe_pc' = "ready"
  /\ UNCHANGED <<pipe_combined, pipe_origin>>

\* combine.py, main: the table is written when there is a row to write
CombineMain ==
  /\ pipe_pc = "ready"
  /\ LET data == CombinedData(pipe_files, Len(Sources))
     IN IF data # <<>>
          THEN /\ pipe_combined' = WriteCombined(data)
               /\ pipe_origin' = [k \in 1..Len(data) |-> data[k].src]
          ELSE UNCHANGED <<pipe_combined, pipe_origin>>
  /\ pipe_pc' = "combined"
  /\ UNCHANGED <<pipe_files, pipe_last, pipe_runs>>

(***************************************************************************)
(* analyze.py : main, the chart functions and generate_insights_report,    *)
(* as far as they touch the table they are handed                          *)
(***************************************************************************)
MaxTableRows == 2
MaxReports == 1

\* the tables load_data may return: at least one row
Tables ==
  LET TableRows ==
        {Row(Address("text", <<Token("Sumqayit", "space")>>), NaN, NaN),
         Row(Address("nan", <<>>), Num(404093), Num(498671)),
         Row(Address("text", <<Token("Xacmaz", "space"), Token("rayonu", "space")>>),
             Num(395000), Num(470000))}
  IN SeqsUpTo(TableRows, MaxTableRows) \ {<<>>}

\* the table has no city column
NoColumn == <<"~no column">>

\* what the i-th function of chart_functions does about the city column:
\* chart_2, chart_3 and chart_4 assign it, chart_1, chart_10 and chart_12
\* do not use it, the others assign it when the table has none
chart_functions ==
  [i \in 1..16 |->
     IF i \in {2, 3, 4} THEN "assign"
     ELSE IF i \in {1, 10, 12} THEN "none" ELSE "if missing"]

\* the column when every row gets the label of its coordinates alone
CityColumnByCoordinates(table) ==
  [k \in 1..Len(table) |->
     extract_city_from_address(Row(Address("nan", <<>>), table[k].latitude,
                                   table[k].longitude))]
\* df.apply(extract_city_from_address, axis=1)
CityColumn(table) ==
  [k \in 1..Len(table) |-> extract_city_from_address(table[k])]

VARIABLES
  an_pc,       \* "start", "charts", "done"
  an_df,       \* df: the address, latitude and longitude columns
  an_city,     \* df['city'], NoColumn while the table has no such column
  an_i,        \* position of the loop of line 1211
  an_reports,  \* number of calls of generate_insights_report so far
  an_assigned, \* the consumers that assigned df['city'], in order
  an_first     \* the column as the first assignment left it

anVars == <<an_pc, an_df, an_city, an_i, an_reports, an_assigned, an_first>>

AnInit ==
  /\ an_pc = "start"
  /\ an_df = <<>>
  /\ an_city = NoColumn
  /\ an_i = 1
  /\ an_reports = 0
  /\ an_assigned = <<>>
  /\ an_first = NoColumn

\* line 1184: df = load_data()
AnLoad ==
  /\ an_pc = "start"
  /\ \E table \in Tables : an_df' = table
  /\ an_pc' = "charts"
  /\ UNCHANGED <<an_city, an_i, an_reports, an_assigned, an_first>>

\* df['city'] = df.apply(extract_city_from_address, axis=1) by a consumer
AssignCity(consumer) ==
  /\ an_city' = CityColumn(an_df)
  /\ an_assigned' = Append(an_assigned, consumer)
  /\ an_first' = IF an_assigned = <<>> THEN CityColumn(an_df) ELSE an_first

\* lines 1211-1219: result = chart_func(df) for the next chart function
AnChart ==
  /\ an_pc = "charts"
  /\ an_i <= 16
  /\ IF \/ chart_functions[an_i] = "assign"
        \/ chart_functions[an_i] = "if missing" /\ an_city = NoColumn
       THEN AssignCity(an_i)
       ELSE UNCHANGED <<an_city, an_assigned, an_first>>
  /\ an_i' = an_i + 1
  /\ UNCHANGED <<an_pc, an_df, an_reports>>

\* generate_insights_report(df, all_insights) called on the table (main does
\* not call it); line 1129
AnReport ==
  /\ an_pc # "start"
  /\ an_reports < MaxReports
  /\ AssignCity(17)
  /\ an_reports' = an_reports + 1
  /\ UNCHANGED <<an_pc, an_df, an_i>>

\* lines 1221-1226
AnDone ==
  /\ an_pc = "charts"
  /\ an_i > 16
  /\ an_pc' = "done"
  /\ UNCHANGED <<an_df, an_city, an_i, an_reports, an_assigned, an_first>>

(***************************************************************************)
(* Specifications: one per program                                      *)
(***************************************************************************)
otherVars == <<rahatVars, pipeVars, anVars>>

vars == <<tamVars, arazVars, bravoVars, obaVars, clsVars, otherVars>>

Init ==
  /\ TamInit
  /\ ArazInit
  /\ BravoInit
  /\ ObaInit
  /\ ClsInit
  /\ RahatInit
  /\ PipeInit
  /\ AnInit

notTam == <<arazVars, bravoVars, obaVars, clsVars, otherVars>>
notAraz == <<tamVars, bravoVars, obaVars, clsVars, otherVars>>
notBravo == <<tamVars, arazVars, obaVars, clsVars, otherVars>>
notOba == <<tamVars, arazVars, bravoVars, clsVars, otherVars>>
notCls == <<tamVars, arazVars, bravoVars, obaVars, otherVars>>
adapterVars == <<tamVars, arazVars, bravoVars, obaVars, clsVars>>
notRahat == <<adapterVars, pipeVars, anVars>>
notPipe == <<adapterVars, rahatVars, anVars>>
notAn == <<adapterVars, rahatVars, pipeVars>>

TamNext ==
  \/ (TamFetchFails /\ UNCHANGED notTam)
  \/ (TamFetch /\ UNCHANGED notTam)
  \/ (TamBranch /\ UNCHANGED notTam)
  \/ (TamReturn /\ UNCHANGED notTam)

ArazNext ==
  \/ (ArazFetchFails /\ UNCHANGED notAraz)
  \/ (ArazFetch /\ UNCHANGED notAraz)
  \/ (ArazChunk /\ UNCHANGED notAraz)
  \/ (ArazStreamReturn /\ UNCHANGED notAraz)
  \/ (ArazNextData /\ UNCHANGED notAraz)
  \/ (ArazNextDataStore /\ UNCHANGED notAraz)
  \/ (ArazNextDataReturn /\ UNCHANGED notAraz)
  \/ (ArazDiv /\ UNCHANGED notAraz)
  \/ (ArazHtmlReturn /\ UNCHANGED notAraz)

BravoNext ==
  \/ (BravoFetchFails /\ UNCHANGED notBravo)
  \/ (BravoFetch /\ UNCHANGED notBravo)
  \/ (BravoArticle /\ UNCHANGED notBravo)
  \/ (BravoReturn /\ UNCHANGED notBravo)

ObaNext ==
  \/ (ObaFetchFails /\ UNCHANGED notOba)
  \/ (ObaFetch /\ UNCHANGED notOba)
  \/ (ObaBranch /\ UNCHANGED notOba)
  \/ (ObaReturn /\ UNCHANGED notOba)

ClsNext ==
  \/ (ClsTakeRow /\ UNCHANGED notCls)
  \/ (ClsClassify /\ UNCHANGED notCls)

RahatNext ==
  \/ (RahatFetchFails /\ UNCHANGED notRahat)
  \/ (RahatFetch /\ UNCHANGED notRahat)
  \/ (RahatScriptStep /\ UNCHANGED notRahat)
  \/ (RahatReturn /\ UNCHANGED notRahat)

PipeNext ==
  \/ (PipeFiles /\ UNCHANGED notPipe)
  \/ (AdapterFetchFails /\ UNCHANGED notPipe)
  \/ (AdapterMain /\ UNCHANGED notPipe)
  \/ (CombineMain /\ UNCHANGED notPipe)

AnNext ==
  \/ (AnLoad /\ UNCHANGED notAn)
  \/ (AnChart /\ UNCHANGED notAn)
  \/ (AnReport /\ UNCHANGED notAn)
  \/ (AnDone /\ UNCHANGED notAn)

SpecTam == Init /\ [][TamNext]_vars
SpecAraz == Init /\ [][ArazNext]_vars
SpecBravo == Init /\ [][BravoNext]_vars
SpecOba == Init /\ [][ObaNext]_vars
SpecClassify == Init /\ [][ClsNext]_vars
SpecRahat == Init /\ [][RahatNext]_vars
SpecPipeline == Init /\ [][PipeNext]_vars
SpecAnalyze == Init /\ [][AnNext]_vars

\* one run of one of the adapters
AdaptersNext ==
  \/ (araz_pc = "start" /\ bravo_pc = "start" /\ oba_pc = "start" /\ TamNext)
  \/ (tam_pc = "start" /\ bravo_pc = "start" /\ oba_pc = "start" /\ ArazNext)
  \/ (tam_pc = "start" /\ araz_pc = "start" /\ oba_pc = "start" /\ BravoNext)
  \/ (tam_pc = "start" /\ araz_pc = "start" /\ bravo_pc = "start" /\ ObaNext)

SpecAdapters == Init /\ [][AdaptersNext]_vars

(***************************************************************************)
(* Properties                                                              *)
(***************************************************************************)
\* number of elements among the first i walked by tam that gave a record
ExtractedUpTo(i) == Cardinality({k \in 1..i : tam_log[k].event = "extracted"})
\* the record the i-th element of the TAM list gave
TamRecordOf(i) == tam_branches[ExtractedUpTo(i)]
\* map_data of the i-th element when the patterns are applied to it
TamMapOf(i) ==
  LET m == tam_branch_list[i].map
  IN IF m.short /\ tam_log[i].redirect.k = "str" THEN tam_log[i].redirect ELSE m
MatchesQ(m) == m.q # NoPair
MatchesTile(m) == m.d3 # "" /\ m.d2 # ""
MatchesNone(m) == ~MatchesQ(m) /\ ~MatchesTile(m) /\ ~m.dms.ok

\* C1: whenever extract_city_from_address has returned, for any row, the
\* label is a non-empty string: one of the fixed labels, a major city, or a
\* capitalized word of the address.
C1_ClassifierTotal ==
  cls_pc = "done" =>
    /\ cls_city # ""
    /\ \/ cls_city \in {"Unknown", "Regional"}
       \/ \E c \in 1..Len(major_cities) : cls_city = major_cities[c]
       \/ \E c \in 1..Len(city_coords) : cls_city = city_coords[c].city
       \/ \E k \in 1..Len(cls_row.address.toks) :
            cls_city = Capitalize(cls_row.address.toks[k].word)
\* a row with an address that no rule labels and no latitude got "Regional"
C1_Witness ==
  /\ cls_pc = "done"
  /\ cls_row.address.k = "text"
  /\ cls_row.latitude.na
  /\ cls_city = "Regional"

\* a coordinate that is a number outside the valid range
OutOfRange(c, limit) == IsNumber(c) /\ Abs(CoordValue(c)) > limit * DmsUnit
ValidCoords(rec) == ~OutOfRange(rec.latitude, 90) /\ ~OutOfRange(rec.longitude, 180)
\* C2: no record emitted by an adapter carries a latitude outside [-90, 90]
\* or a longitude outside [-180, 180].
C2_CoordinatesInRange ==
  /\ \A n \in 1..Len(tam_branches) : ValidCoords(tam_branches[n])
  /\ \A n \in 1..Len(bravo_branches) : ValidCoords(bravo_branches[n])
  /\ \A n \in 1..Len(oba_branches) : ValidCoords(oba_branches[n])
  /\ \A n \in 1..Len(araz_branches) : ValidCoords(araz_branches[n])

NoDuplicates(list) ==
  \A a, b \in 1..Len(list) :
    (list[a].name = list[b].name /\ list[a].address = list[b].address) => a = b
\* C3: the list of every adapter never holds two records with the same
\* (name, address).
C3_NoDuplicateRecords ==
  /\ NoDuplicates(tam_branches)
  /\ NoDuplicates(araz_branches)
  /\ NoDuplicates(bravo_branches)
  /\ NoDuplicates(oba_branches)

\* C4: the records scrape_araz_locations returns all come from one strategy.
C4_OneStrategy ==
  araz_pc = "done" =>
    \A a, b \in 1..Len(araz_origin) : araz_origin[a] = araz_origin[b]

\* the records of the elements of a list that parse, in order
RECURSIVE NdRecordsOfDicts(_, _)
NdRecordsOfDicts(stores, k) ==
  IF k > Len(stores) THEN <<>>
  ELSE IF stores[k].isdict
    THEN <<NdRecord(stores[k])>> \o NdRecordsOfDicts(stores, k + 1)
    ELSE NdRecordsOfDicts(stores, k + 1)
\* C5: an element whose parsing raises is dropped and the later elements are
\* still extracted: in the __NEXT_DATA__ strategy the result is the records
\* of the elements that parse; in the TAM loop every element is walked.
C5_FailingItemsDropped ==
  /\ (araz_pc = "done" /\ araz_stores_data # <<>>) =>
       araz_branches = NdRecordsOfDicts(araz_stores_data, 1)
  /\ tam_pc = "done" => Len(tam_log) = Len(tam_branch_list)

\* C6: scrape_tam_locations never raises, whatever the payload.
C6_TamNeverRaises == tam_pc # "raised"

\* C7: for a dict payload the record list is the list under the first
\* container key present; a first present key holding [] gives no listing.
C7_FirstContainerKey ==
  (tam_pc \in {"loop", "done"} /\ tam_data.t = "dict") =>
    LET j == FirstPresent(ContainerKeys, tam_data.keys)
    IN (j # 0 /\ tam_data.keys[ContainerKeys[j]].k = "list") =>
         /\ tam_branch_list = tam_data.keys[ContainerKeys[j]].items
         /\ (tam_data.keys[ContainerKeys[j]].items = <<>> /\ tam_pc = "done")
               => tam_branches = <<>>

\* C8 as stated: the name of a record is the value of the first key present
\* among "title" and "branch_name".
C8_AlternateKeys ==
  \A i \in 1..Len(tam_log) :
    tam_log[i].event = "extracted" =>
      LET b == tam_branch_list[i]
      IN TamRecordOf(i).name =
           (IF b.title # ABSENT THEN b.title
            ELSE IF b.branch_name # ABSENT THEN b.branch_name ELSE "")
\* C8: each field is read from one fixed key (name from "title", phone from
\* "phone_1", hours from "work_hours", address from "address"); a record
\* without that key gets the empty string, whatever other keys it holds.
C8_SingleKeys ==
  \A i \in 1..Len(tam_log) :
    tam_log[i].event = "extracted" =>
      LET b == tam_branch_list[i]
          rec == TamRecordOf(i)
      IN /\ rec.name = (IF b.title = ABSENT THEN "" ELSE b.title)
         /\ rec.phone = (IF b.phone_1 = ABSENT THEN "" ELSE b.phone_1)
         /\ rec.hours = (IF b.work_hours = ABSENT THEN "" ELSE b.work_hours)
         /\ (b.address = ABSENT => rec.address = "")
\* a record with "branch_name" but no "title" was emitted with an empty name
C8_Witness ==
  \E i \in 1..Len(tam_log) :
    /\ tam_log[i].event = "extracted"
    /\ tam_branch_list[i].title = ABSENT
    /\ tam_branch_list[i].branch_name = "B1"
    /\ TamRecordOf(i).name = ""

\* C9: q= wins whenever it matches; the tile form is used only when q= does
\* not match and both !3d and !2d are there; the DMS form only when neither
\* earlier form matched.
C9_FormOrder ==
  \A i \in 1..Len(tam_log) :
    (tam_log[i].event = "extracted" /\ tam_branch_list[i].map.k = "str") =>
      LET m == TamMapOf(i)
          rec == TamRecordOf(i)
      IN /\ MatchesQ(m) =>
              rec.latitude = TextCoord(m.q[1]) /\ rec.longitude = TextCoord(m.q[2])
         /\ (~MatchesQ(m) /\ MatchesTile(m)) =>
              rec.latitude = TextCoord(m.d3) /\ rec.longitude = TextCoord(m.d2)
         /\ (~MatchesQ(m) /\ ~MatchesTile(m) /\ m.dms.ok) =>
              /\ rec.latitude = CalcCoord(DmsValue(m.dms.lat))
              /\ rec.longitude = CalcCoord(DmsValue(m.dms.lon))
         /\ rec.latitude.k = "calc" => (~MatchesQ(m) /\ ~MatchesTile(m))
\* a map field matching all three forms gave the q= pair
C9_Witness ==
  \E i \in 1..Len(tam_log) :
    /\ tam_log[i].event = "extracted"
    /\ tam_branch_list[i].map.k = "str"
    /\ MatchesQ(TamMapOf(i)) /\ MatchesTile(TamMapOf(i)) /\ TamMapOf(i).dms.ok
    /\ TamRecordOf(i).latitude = TextCoord(TamMapOf(i).q[1])

\* the i-th element of the TAM list raises for no reason other than its map
ParsesButForMap(i) == tam_branch_list[i].isdict /\ tam_branch_list[i].address # NONSTR
EmittedEmpty(i) ==
  /\ tam_log[i].event = "extracted"
  /\ TamRecordOf(i).latitude = NoCoord
  /\ TamRecordOf(i).longitude = NoCoord
\* the records of Bravo carry the attributes of their articles
BravoNoDefault ==
  \A n \in 1..Len(bravo_branches) :
    /\ bravo_articles[n].lat # ABSENT /\ bravo_articles[n].lng # ABSENT
    /\ bravo_branches[n].latitude = TextCoord(bravo_articles[n].lat)
    /\ bravo_branches[n].longitude = TextCoord(bravo_articles[n].lng)
\* C10 as stated: a map field that is absent, or matches no form, or whose
\* redirect request failed, gives a record with both coordinates empty.
C10_UnresolvedEmpty ==
  /\ \A i \in 1..Len(tam_log) :
       LET m == tam_branch_list[i].map
       IN (/\ ParsesButForMap(i)
           /\ \/ m.k \in {"absent", "empty"}
              \/ (m.k = "str" /\ MatchesNone(TamMapOf(i)))
              \/ (m.k = "str" /\ m.short /\ tam_log[i].redirect = RedirectFailed))
          => EmittedEmpty(i)
  /\ BravoNoDefault
\* C10: a map field that is absent or empty, or is a string that matches no
\* form (as redirected, or as it stands when the redirect request failed),
\* gives a record with both coordinates empty; Bravo never emits its default.
C10_UnresolvedEmptyAmended ==
  /\ \A i \in 1..Len(tam_log) :
       LET m == tam_branch_list[i].map
       IN (/\ ParsesButForMap(i)
           /\ \/ m.k \in {"absent", "empty"}
              \/ (m.k = "str" /\ MatchesNone(TamMapOf(i))))
          => EmittedEmpty(i)
  /\ BravoNoDefault
\* a shortened link matching no form, whose redirect failed, gave a record
\* with empty coordinates
C10_Witness ==
  \E i \in 1..Len(tam_log) :
    /\ tam_branch_list[i].map.k = "str" /\ tam_branch_list[i].map.short
    /\ tam_log[i].redirect = RedirectFailed
    /\ MatchesNone(tam_branch_list[i].map)
    /\ EmittedEmpty(i)

\* a coordinate that is either empty or the text of a number
EmptyOrNumber(c) == c = NoCoord \/ IsNumber(c)
\* C11: no record of the TAM adapter carries a coordinate text whose numeric
\* parts are malformed: such a token leaves both coordinates empty.
C11_MalformedUnresolved ==
  \A n \in 1..Len(tam_branches) :
    EmptyOrNumber(tam_branches[n].latitude) /\ EmptyOrNumber(tam_branches[n].longitude)

\* D + M/60 + S/3600 with the sign of the hemisphere, in units of 1/36000
\* degree, from the digits as they stand in the text
DmsByHand(half) ==
  LET v == half.d * DmsUnit + (10 * half.m1 + half.m2) * 600 + half.s
  IN IF half.h \in {"S", "W"} THEN 0 - v ELSE v
\* C12: a record whose coordinates come from a DMS text carries, for each
\* half, D + M/60 + S/3600 negated exactly for S and W; a text without the
\* pattern gives the empty pair.
C12_DmsConversion ==
  /\ \A i \in 1..Len(tam_log) :
       (/\ tam_log[i].event = "extracted"
        /\ tam_branch_list[i].map.k = "str"
        /\ ~MatchesQ(TamMapOf(i)) /\ ~MatchesTile(TamMapOf(i))
        /\ TamMapOf(i).dms.ok)
       => /\ TamRecordOf(i).latitude = CalcCoord(DmsByHand(TamMapOf(i).dms.lat))
          /\ TamRecordOf(i).longitude = CalcCoord(DmsByHand(TamMapOf(i).dms.lon))
  /\ dms_to_decimal(NoDms) = <<NoCoord, NoCoord>>

LabelledText == cls_pc = "done" /\ cls_row.address.k = "text"
\* the city occurs in the address (both lowered)
Occurs(city) == CityInAddress(cls_row.address.toks, city)
\* C14: when the address is text, the label is the first name of the
\* major-city list that occurs in the address in any case, wherever it occurs
\* and whatever other city, district, settlement, keyword or coordinate is
\* there.
C14_FirstListedCity ==
  LabelledText =>
    \A c \in 1..Len(major_cities) :
      (Occurs(major_cities[c]) /\ \A b \in 1..(c - 1) : ~Occurs(major_cities[b]))
        => cls_city = major_cities[c]
\* "Sumqayit ... Baki": the later word holds the earlier city of the list
C14_Witness ==
  /\ LabelledText
  /\ Len(cls_row.address.toks) = 2
  /\ cls_row.address.toks[1].word = "Sumqayit"
  /\ cls_row.address.toks[2].word = "Baki"
  /\ cls_city = "Baki"

\* the classifier has labelled a row whose address is missing or blank
LabelledNoAddress == cls_pc = "done" /\ cls_row.address.k \in {"nan", "blank"}
BothCoords == ~cls_row.latitude.na /\ ~cls_row.longitude.na
NearestCentreLabel ==
  infer_city_from_coordinates(cls_row.latitude.v, cls_row.longitude.v)
\* C15: a missing, empty or blank address gives the nearest-centre result
\* when both coordinates are present and "Unknown" otherwise.
C15_NoAddress ==
  LabelledNoAddress =>
    cls_city = (IF BothCoords THEN NearestCentreLabel ELSE "Unknown")
\* a blank address with a latitude but no longitude got "Unknown"
C15_Witness ==
  /\ LabelledNoAddress
  /\ cls_row.address.k = "blank"
  /\ ~cls_row.latitude.na /\ cls_row.longitude.na
  /\ cls_city = "Unknown"

\* no name of the major-city list occurs in the address
NoCityOccurs == \A c \in 1..Len(major_cities) : ~Occurs(major_cities[c])
\* the label the rules after the district rule give
LaterLabel == SettlementOrLater(cls_row)
\* position of the leftmost word followed, after white space, by "rayonu";
\* 0 if none
LeftmostBeforeRayonu ==
  LET toks == cls_row.address.toks
      hit(k) == k < Len(toks) /\ toks[k].sep = "space" /\ toks[k + 1].word = "rayonu"
  IN IF \E k \in 1..Len(toks) : hit(k)
       THEN CHOOSE k \in 1..Len(toks) : hit(k) /\ \A h \in 1..(k - 1) : ~hit(h)
       ELSE 0
\* the same for a following word that starts with "ray"
LeftmostBeforeRay ==
  LET toks == cls_row.address.toks
      hit(k) == k < Len(toks) /\ toks[k].sep = "space"
                /\ toks[k + 1].word \in {"rayonu", "ray"}
  IN IF \E k \in 1..Len(toks) : hit(k)
       THEN CHOOSE k \in 1..Len(toks) : hit(k) /\ \A h \in 1..(k - 1) : ~hit(h)
       ELSE 0
\* the label of the district rule for the word at position k
DistrictLabel(k) ==
  LET w == Capitalize(cls_row.address.toks[k].word)
  IN IF w \in BakuDistricts THEN "Baki" ELSE w
\* C16 as stated: with no city name in the address, the district rule labels
\* exactly the addresses holding a word followed by "rayonu".
C16_RayonuOnly ==
  (LabelledText /\ NoCityOccurs) =>
    cls_city = (IF LeftmostBeforeRayonu # 0
                  THEN DistrictLabel(LeftmostBeforeRayonu) ELSE LaterLabel)
\* C16: with no city name in the address, the district rule labels exactly
\* the addresses holding a word followed, after white space, by a word that
\* starts with "ray" ("rayonu", "ray."): "Baki" for a Baku district,
\* otherwise the captured word capitalized.
C16_RayPrefix ==
  (LabelledText /\ NoCityOccurs) =>
    cls_city = (IF LeftmostBeforeRay # 0
                  THEN DistrictLabel(LeftmostBeforeRay) ELSE LaterLabel)
\* "Nesimi rayonu" got "Baki"
C16_Witness ==
  /\ LabelledText
  /\ Len(cls_row.address.toks) = 2
  /\ cls_row.address.toks[1] = Token("Nesimi", "space")
  /\ cls_row.address.toks[2].word = "rayonu"
  /\ cls_city = "Baki"

\* the stoplist of the settlement rule
Stoplist == {"Yeni", "Kohne", "Birinci", "Ikinci", "Boyuk", "Kicik"}
\* the address holds a capital keyword
ContainsKeyword ==
  \E k \in 1..Len(cls_row.address.toks) :
    \/ cls_row.address.toks[k].word = "metrosu"
    \/ cls_row.address.toks[k] = Token("pr", "dot")
\* the label of the rules after the settlement rule
KeywordOrCoords ==
  IF ContainsKeyword THEN "Baki"
  ELSE IF BothCoords THEN NearestCentreLabel ELSE "Regional"
\* the settlement rule is reached and its pattern captures a word
SettlementReached ==
  /\ LabelledText /\ NoCityOccurs
  /\ RayonMatch(cls_row.address.toks) = 0
  /\ SettlementMatch(cls_row.address.toks) # 0
SettlementWord ==
  Capitalize(cls_row.address.toks[SettlementMatch(cls_row.address.toks)].word)
\* C17: in the settlement rule a captured word of the stoplist is not the
\* label, classification goes on with the keyword rule, the coordinates and
\* "Regional"; any other captured word is the label, capitalized.
C17_StoplistRejected ==
  SettlementReached =>
    cls_city = (IF SettlementWord \in Stoplist THEN KeywordOrCoords ELSE SettlementWord)
\* "yeni seheri" without coordinates got "Regional"
C17_Witness ==
  /\ SettlementReached
  /\ SettlementWord = "Yeni"
  /\ cls_row.latitude.na
  /\ cls_city = "Regional"

\* no city name, no district pattern and no accepted settlement pattern
NoEarlierRule ==
  /\ LabelledText /\ NoCityOccurs
  /\ RayonMatch(cls_row.address.toks) = 0
  /\ (SettlementMatch(cls_row.address.toks) # 0 => SettlementWord \in Stoplist)
\* C18: when no earlier rule labels the address, a capital keyword gives
\* "Baki" whatever the coordinates; without one the label is the
\* nearest-centre result when both coordinates are present, else "Regional".
C18_KeywordThenCoords == NoEarlierRule => cls_city = KeywordOrCoords
\* "metrosu" with the coordinates of the centre of Sumqayit got "Baki"
C18_Witness ==
  /\ NoEarlierRule
  /\ ContainsKeyword
  /\ BothCoords /\ NearestCentreLabel = "Sumqayit"
  /\ cls_city = "Baki"

\* squared distance (capped above the threshold) from the point of the row
\* to the c-th centre
CentreDistSq(c) == DistSq(cls_row.latitude.v, cls_row.longitude.v, city_coords[c])
Centres == 1..Len(city_coords)
FarFromAll == \A c \in Centres : CentreDistSq(c) > Threshold * Threshold
\* strictly inside the box 40.1 < lat < 40.7, 49.5 < lon < 50.5
InsideBox ==
  /\ 401000 < cls_row.latitude.v /\ cls_row.latitude.v < 407000
  /\ 495000 < cls_row.longitude.v /\ cls_row.longitude.v < 505000
\* C20: a point more than 0.5 degree from every centre is labelled "Baki"
\* strictly inside the box and "Regional" elsewhere, never with the name of
\* the nearest centre.
C20_FarOverride ==
  (LabelledNoAddress /\ BothCoords /\ FarFromAll) =>
    cls_city = (IF InsideBox THEN "Baki" ELSE "Regional")
\* a far point with latitude 40.1, on the edge of the box, and a blank or
\* missing address got "Regional"
C20_Witness ==
  /\ LabelledNoAddress /\ BothCoords /\ FarFromAll
  /\ cls_row.latitude.v = 401000
  /\ cls_city = "Regional"

\* the payload of the chunk is a string holding the three markers
PassesGate(chunk) ==
  /\ chunk.json = "ok" /\ chunk.isstr
  /\ {"title", "address", "phone_number"} \subseteq chunk.markers
\* stores_found after the first n chunks, when exactly the chunks that pass
\* the gate contribute
RECURSIVE GatedStores(_, _)
GatedStores(chunks, n) ==
  IF n = 0 THEN <<>>
  ELSE IF PassesGate(chunks[n])
    THEN AddStores(GatedStores(chunks, n - 1), chunks[n].stores, 1)
    ELSE GatedStores(chunks, n - 1)
\* C21: in the streaming strategy a push chunk adds stores only if its
\* payload is a string that holds "title", "address" and "phone_number";
\* any other chunk leaves the list of stores as it was.
C21_MarkerGate ==
  araz_pc = "stream" => araz_stores_found = GatedStores(araz_doc.chunks, araz_i - 1)
\* a chunk holding only two of the markers was passed over, the chunk after
\* it gave a store
C21_Witness ==
  /\ araz_pc = "stream" /\ araz_i = 3
  /\ araz_doc.chunks[1].isstr /\ araz_doc.chunks[1].markers = {"title", "address"}
  /\ PassesGate(araz_doc.chunks[2])
  /\ Len(araz_stores_found) = 1

\* the texts of the <li>s of the class that hold a <span>, in order
TextsOfClass(lis, class) ==
  LET sel == SelectSeq(lis, LAMBDA li : li.span /\ li.class = class)
  IN [k \in 1..Len(sel) |-> sel[k].text]
Formats == {"Hiper", "Super", "Market", "Ekspres", "Premium"}
\* position of the first format text in a sequence of texts, 0 if none
FirstFormat(texts) ==
  IF \E k \in 1..Len(texts) : texts[k] \in Formats
    THEN CHOOSE k \in 1..Len(texts) :
           texts[k] \in Formats /\ \A h \in 1..(k - 1) : texts[h] \notin Formats
    ELSE 0
CategoryLabel(c) ==
  CASE c = "2237" -> "Hiper" [] c = "2236" -> "Super"
    [] c = "2235" -> "Market" [] c = "2238" -> "Ekspres" [] OTHER -> ""
LastOr(texts, default) == IF texts = <<>> THEN default ELSE texts[Len(texts)]
\* C26: the type of a Bravo record is the first format text among its
\* location items, else the label of its category code, else empty; phone,
\* hours and address depend only on the items of their own class (the last
\* phone item, the last time item, the last location item other than the
\* one that gave the type), so the order of items of different classes does
\* not matter.
C26_BravoTypeAndFields ==
  \A n \in 1..Len(bravo_branches) :
    LET a == bravo_articles[n]
        loc == TextsOfClass(a.lis, "location")
        f == FirstFormat(loc)
        rest == [k \in 1..(Len(loc) - (IF f = 0 THEN 0 ELSE 1)) |->
                   IF f # 0 /\ k >= f THEN loc[k + 1] ELSE loc[k]]
        rec == bravo_branches[n]
    IN /\ rec.type = (IF f # 0 THEN loc[f]
                      ELSE IF a.category = ABSENT THEN "" ELSE CategoryLabel(a.category))
       /\ rec.phone = LastOr(TextsOfClass(a.lis, "phone"), "")
       /\ rec.hours = LastOr(TextsOfClass(a.lis, "time"), "")
       /\ rec.address = LastOr(rest, "")
\* an article of category 2237 with the format text "Super" got the type
\* "Super"
C26_Witness ==
  \E n \in 1..Len(bravo_branches) :
    /\ bravo_articles[n].category = "2237"
    /\ bravo_branches[n].type \in {"Super"}
    /\ TextsOfClass(bravo_articles[n].lis, "location") = <<"Super">>

\* the store objects matched in the first n chunks, in order of appearance
RECURSIVE SeenObjs(_, _)
SeenObjs(chunks, n) ==
  IF n = 0 THEN <<>>
  ELSE SeenObjs(chunks, n - 1) \o (IF PassesGate(chunks[n]) THEN chunks[n].stores ELSE <<>>)
SameStore(m1, m2) ==
  /\ Unescape(m1.title) = Unescape(m2.title)
  /\ Unescape(m1.address) = Unescape(m2.address)
\* the records of the objects among the first n that no earlier one equals
\* in name and address
RECURSIVE FirstOccurrences(_, _)
FirstOccurrences(seen, n) ==
  IF n = 0 THEN <<>>
  ELSE IF \E h \in 1..(n - 1) : SameStore(seen[h], seen[n])
    THEN FirstOccurrences(seen, n - 1)
    ELSE Append(FirstOccurrences(seen, n - 1), StoreRecord(seen[n]))
\* C29: while the streaming strategy runs, the accumulated list has pairwise
\* distinct (name, address), and it is the list of the records of the first
\* occurrence of each (name, address), in order of first occurrence: a later
\* object with the same name and address changes nothing.
C29_FirstOccurrenceKept ==
  araz_pc = "stream" =>
    LET seen == SeenObjs(araz_doc.chunks, araz_i - 1)
    IN /\ \A k, h \in 1..Len(araz_stores_found) :
            (araz_stores_found[k].name = araz_stores_found[h].name
             /\ araz_stores_found[k].address = araz_stores_found[h].address) => k = h
       /\ araz_stores_found = FirstOccurrences(seen, Len(seen))
\* two objects S1/A1 with different phone, hours and coordinates were seen,
\* and one record with the first one's values is held
C29_Witness ==
  /\ araz_pc = "stream"
  /\ LET seen == SeenObjs(araz_doc.chunks, araz_i - 1)
     IN /\ Len(seen) = 2
        /\ SameStore(seen[1], seen[2])
        /\ seen[1].phone_number = "P1" /\ seen[2].phone_number = "P2"
  /\ Len(araz_stores_found) = 1
  /\ araz_stores_found[1].phone = "P1"

\* the locations script: the first script holding 'var locations'
LocationsScript(doc) ==
  LET locs == SelectSeq(doc.scripts, LAMBDA sc : sc.locations)
  IN IF locs = <<>> THEN <<>> ELSE locs[1].entries
HasTriple(entries) ==
  \E k \in 1..Len(entries) :
    DigitsDots(entries[k].lat) /\ DigitsDots(entries[k].lng) /\ entries[k].anchor # NoText
\* the element the n-th record of the looser pattern is from
LooseEntry(n) ==
  LET es == LocationsScript(rahat_doc)
      ok == SelectSeq(es, LAMBDA e : DigitsDots(e.lat) /\ DigitsDots(e.lng))
  IN ok[n]
\* for a text beginning with "Rahat Market": the tokens inside the
\* parenthesis that opens right after that prefix, NoText when none does
PrefixParen(text) ==
  IF Len(text) >= 3 /\ text[2] = "(" /\ \E j \in 3..Len(text) : text[j] = ")"
    THEN LET j == CHOOSE a \in 3..Len(text) :
                    text[a] = ")" /\ \A b \in 3..(a - 1) : text[b] # ")"
         IN SubSeq(text, 3, j - 1)
    ELSE NoText
\* C27 (first part): the returned list never holds records of both patterns,
\* and it holds records of the looser pattern only when the stricter one
\* matches nothing in the locations script.
C27_PatternsNotMixed ==
  /\ \A k, h \in 1..Len(rahat_origin) : rahat_origin[k] = rahat_origin[h]
  /\ (\E k \in 1..Len(rahat_origin) : rahat_origin[k] = "name")
       => ~HasTriple(LocationsScript(rahat_doc))
AfterPrefix(text) ==
  LET At(i) == /\ text[i] = RM /\ text[i + 1] = "("
               /\ \E j \in (i + 2)..Len(text) : text[j] = ")"
  IN IF \E i \in 1..(Len(text) - 2) : At(i)
       THEN LET i == CHOOSE a \in 1..(Len(text) - 2) :
                       At(a) /\ \A b \in 1..(a - 1) : ~At(b)
                j == CHOOSE a \in (i + 2)..Len(text) :
                       text[a] = ")" /\ \A b \in (i + 2)..(a - 1) : text[b] # ")"
            IN SubSeq(text, i + 2, j - 1)
       ELSE NoText
RECURSIVE RowsBefore(_, _)
RowsBefore(files, n) ==
  IF n = 0 THEN 0 ELSE RowsBefore(files, n - 1) + Len(files[Sources[n]].rows)
\* data/combined.csv was written by the combine run that has just ended
TableWritten ==
  pipe_pc = "combined" /\ RowsBefore(pipe_files, Len(Sources)) > 0
\* row k of the n-th input file stands in the table at the place that the
\* order of the input files and of their rows gives it, has that file as
\* its source, and has the values it has in the file
RowInPlace(n, k) ==
  LET at == RowsBefore(pipe_files, n - 1) + k
      row == pipe_files[Sources[n]].rows[k]
  IN /\ at <= Len(pipe_combined.rows)
     /\ pipe_origin[at] = Sources[n]
     /\ \A f \in DOMAIN row \ {"chain"} : pipe_combined.rows[at][f] = row[f]
\* C28: the table written by a combine run has one row for every data row of
\* every input file, in the order of the input files and then of the rows,
\* also when rows are equal.
C28_NoDeduplication ==
  TableWritten =>
    /\ Len(pipe_combined.rows) = RowsBefore(pipe_files, Len(Sources))
    /\ \A n \in 1..Len(Sources) :
         \A k \in 1..Len(pipe_files[Sources[n]].rows) : RowInPlace(n, k)
\* a table with two equal rows of one source and a row of another source with
\* the same name and address
C28_Witness ==
  /\ TableWritten
  /\ \E i, j, k \in 1..Len(pipe_combined.rows) :
       /\ i < j /\ pipe_origin[i] = pipe_origin[j] /\ pipe_origin[k] # pipe_origin[i]
       /\ pipe_combined.rows[i] = pipe_combined.rows[j]
       /\ pipe_combined.rows[k].name = pipe_combined.rows[i].name
       /\ pipe_combined.rows[k].address = pipe_combined.rows[i].address

\* C24: every row of the combined table has as chain the upper-cased base
\* name of the file it came from, whatever chain cell it had there.
C24_ChainIsSourceLabel ==
  \A k \in 1..Len(pipe_combined.rows) :
    pipe_combined.rows[k].chain =
      (CASE pipe_origin[k] = "bravo" -> "BRAVO" [] pipe_origin[k] = "araz" -> "ARAZ"
         [] pipe_origin[k] = "rahat" -> "RAHAT" [] pipe_origin[k] = "oba" -> "OBA"
         [] pipe_origin[k] = "tam" -> "TAM")
\* a row that had the chain "OLD" in data/tam.csv has the chain "TAM"
C24_Witness ==
  /\ TableWritten
  /\ pipe_files["tam"].exists /\ Len(pipe_files["tam"].rows) >= 1
  /\ "chain" \in DOMAIN pipe_files["tam"].rows[1]
  /\ pipe_files["tam"].rows[1].chain = "OLD"
  /\ pipe_combined.rows[RowsBefore(pipe_files, 4) + 1].chain = "TAM"

\* place of a field name in the order of the code points
CodePointRank(f) ==
  CASE f = "Zone" -> 1 [] f = "category_id" -> 2 [] f = "google_maps_url" -> 3
    [] f = "region" -> 4 [] f = "type" -> 5
\* the fields of the data rows of the input files
FieldsSeen ==
  UNION {UNION {DOMAIN pipe_files[src].rows[k] : k \in 1..Len(pipe_files[src].rows)} :
           src \in Range(Sources)}
\* C23: the header of the table written by a combine run is chain, name,
\* address, phone, hours, latitude, longitude followed by the other fields
\* of the rows read, sorted, each once; a row has its own values and an
\* empty cell for each field its file did not have.
C23_HeaderAndCells ==
  TableWritten =>
    LET header == pipe_combined.header
        extra == SubSeq(header, 8, Len(header))
    IN /\ Len(header) >= 7
       /\ SubSeq(header, 1, 7) =
            <<"chain", "name", "address", "phone", "hours", "latitude", "longitude">>
       /\ Range(extra) = FieldsSeen \ Range(SubSeq(header, 1, 7))
       /\ \A i, j \in 1..Len(extra) : i < j => CodePointRank(extra[i]) < CodePointRank(extra[j])
       /\ \A n \in 1..Len(Sources) : \A k \in 1..Len(pipe_files[Sources[n]].rows) :
            LET row == pipe_files[Sources[n]].rows[k]
                out == pipe_combined.rows[RowsBefore(pipe_files, n - 1) + k]
            IN /\ DOMAIN out = Range(header)
               /\ \A f \in Range(header) \ {"chain"} :
                    out[f] = IF f \in DOMAIN row THEN row[f] ELSE ""
\* a table made from a Bravo file and a file with a field Zone: the header
\* ends with Zone, category_id, google_maps_url, type, the Bravo row has an
\* empty Zone and the other row an empty type
C23_Witness ==
  /\ TableWritten
  /\ SubSeq(pipe_combined.header, 8, Len(pipe_combined.header)) =
       <<"Zone", "category_id", "google_maps_url", "type">>
  /\ \E i, j \in 1..Len(pipe_combined.rows) :
       /\ pipe_origin[i] = "bravo" /\ pipe_combined.rows[i]["Zone"] = ""
       /\ pipe_combined.rows[i].type = "Hiper"
       /\ pipe_origin[j] = "tam" /\ pipe_combined.rows[j]["Zone"] = "Z1"
       /\ pipe_combined.rows[j].type = ""

C25_CityAssignedOnce ==
  Len(an_assigned) <= 1

====
